---- MODULE Spec2Model ----
(***************************************************************************)
(* Model of the sonar-coverage-reporter package: the coverage classifier,  *)
(* the filter strategies and their builder, the CSV reporter, the report   *)
(* orchestrator, the SonarQube client and the command line.                *)
(*                                                                         *)
(* JavaScript values are tagged records [t, n, s, e]: t is the kind of     *)
(* value, n the payload of a finite number (fixed point, Scale units per   *)
(* percent) or of a date, s the payload of a string and e the elements of  *)
(* an array.                                                               *)
(***************************************************************************)
EXTENDS Integers, Sequences, FiniteSets, TLC

VARIABLES
  cls,         \* the call on the SpanishCoverageClassifier
  strategies,  \* ProjectFilterBuilder.strategies
  calls,       \* the calls made on the ProjectFilterBuilder, in call order
  flt,         \* the strategy at hand and its application
  rep,         \* the call on the PapaparseCsvReporter
  orc,         \* the run of DefaultReportOrchestrator.generateReport
  sq,          \* the call of FetchSonarQubeClient.fetchProjects
  cli,         \* the run of the command line's main
  lng          \* the call of LanguageFilterStrategy.apply

vars == <<cls, strategies, calls, flt, rep, orc, sq, cli, lng>>

(***************************************************************************)
(* Bounds of the model.                                                    *)
(***************************************************************************)
\* longest project collection handed to a strategy or to the reporter
MaxLen == 2
\* most strategies pushed on one ProjectFilterBuilder
MaxAdded == 2
\* longest list of sub-strategies of an AND or OR combination
MaxSubs == 2

\* units per percentage point of a finite number: coverage values carry one
\* decimal (45.5 is 45 * Scale + Scale \div 2)
Scale == 10

(***************************************************************************)
(* JavaScript values and the operators the code applies to them.           *)
(***************************************************************************)
Prim(tag, i, x) == [t |-> tag, n |-> i, s |-> x, e |-> <<>>]
Num(i) == Prim("num", i, "")
Pct(p) == Num(p * Scale)
NaN == Prim("nan", 0, "")
PosInf == Prim("inf", 0, "")
NegInf == Prim("ninf", 0, "")
Undefined == Prim("undef", 0, "")
Null == Prim("null", 0, "")
Str(x) == Prim("str", 0, x)
True == Prim("bool", 1, "")
False == Prim("bool", 0, "")
\* a Date object holding the time value i
Date(i) == Prim("date", i, "")
\* an array of values
Arr(elems) == [t |-> "arr", n |-> 0, s |-> "", e |-> elems]

NumberTags == {"num", "nan", "inf", "ninf"}

\* typeof v
TypeOf(v) ==
  CASE v.t \in NumberTags -> "number"
    [] v.t = "str" -> "string"
    [] v.t = "undef" -> "undefined"
    [] v.t = "bool" -> "boolean"
    [] OTHER -> "object"

\* Number.isNaN(v) and Number.isFinite(v): both false of every non-number
NumberIsNaN(v) == v.t = "nan"
NumberIsFinite(v) == v.t = "num"

\* the numeric conversion of the relational operators; the strings of the
\* model are the empty string and strings that spell no number
ToNumber(v) ==
  CASE v.t \in NumberTags -> v
    [] v.t = "date" -> Num(v.n)
    [] v.t = "null" -> Num(0)
    [] v.t = "bool" -> Num(v.n)
    [] v.t = "str" /\ v.s = "" -> Num(0)
    [] OTHER -> NaN

\* a < b on numbers
NumLt(x, y) ==
  CASE x.t = "nan" \/ y.t = "nan" -> FALSE
    [] x.t = "ninf" -> y.t # "ninf"
    [] x.t = "inf" -> FALSE
    [] y.t = "ninf" -> FALSE
    [] y.t = "inf" -> TRUE
    [] OTHER -> x.n < y.n

NumEq(x, y) ==
  /\ x.t # "nan"
  /\ y.t # "nan"
  /\ x.t = y.t
  /\ x.n = y.n

\* a < b, a > b, a >= b, a <= b of a number a and any value b
JsLt(a, b) == NumLt(ToNumber(a), ToNumber(b))
JsGt(a, b) == NumLt(ToNumber(b), ToNumber(a))
JsGe(a, b) == NumLt(ToNumber(b), ToNumber(a)) \/ NumEq(ToNumber(a), ToNumber(b))
JsLe(a, b) == NumLt(ToNumber(a), ToNumber(b)) \/ NumEq(ToNumber(a), ToNumber(b))

\* a === b
StrictEq(a, b) ==
  /\ TypeOf(a) = TypeOf(b)
  /\ a.t # "nan"
  /\ a = b

\* the truthiness of a value
Truthy(v) ==
  CASE v.t \in {"undef", "null", "nan"} -> FALSE
    [] v.t \in {"num", "bool"} -> v.n # 0
    [] v.t = "str" -> v.s # ""
    [] OTHER -> TRUE

\* Array.isArray(v)
IsArray(v) == v.t = "arr"

\* { ...defaults, ...config }: the keys of config override those of defaults
Merge(defaults, config) ==
  [k \in DOMAIN defaults \cup DOMAIN config |->
     IF k \in DOMAIN config THEN config[k] ELSE defaults[k]]

\* obj[key] of an object: undefined when the object has no such property
Get(obj, key) == IF key \in DOMAIN obj THEN obj[key] ELSE Undefined

(***************************************************************************)
(* CoverageCategory                                                        *)
(***************************************************************************)
SIN_COVERAGE == "Sin coverage"
NO_PASA_MINIMO == "No pasa del mínimo esperado"
SI_PASA_MINIMO == "Si pasa el mínimo esperado"

Categories == {SIN_COVERAGE, NO_PASA_MINIMO, SI_PASA_MINIMO}

(***************************************************************************)
(* SpanishCoverageClassifier                                               *)
(***************************************************************************)
DEFAULT_CLASSIFICATION_CONFIG ==
  [threshold |-> Pct(50), strictZeroClassification |-> TRUE, customCategories |-> <<>>]

Invalid(msg) == [isValid |-> FALSE, errorMessage |-> msg, normalizedValue |-> Undefined]

\* a plausible slip: the upper range check left out
validateCoverageInternal_noUpper(coverage) ==
  IF TypeOf(coverage) # "number" THEN Invalid("Coverage must be a number")
  ELSE IF NumberIsNaN(coverage) THEN Invalid("Coverage cannot be NaN")
  ELSE IF ~NumberIsFinite(coverage) THEN Invalid("Coverage must be a finite number")
  ELSE IF JsLt(coverage, Pct(0)) THEN Invalid("Coverage cannot be negative")
  ELSE [isValid |-> TRUE, errorMessage |-> "", normalizedValue |-> coverage]

validateCoverageInternal(coverage) ==
  IF TypeOf(coverage) # "number" THEN Invalid("Coverage must be a number")
  ELSE IF NumberIsNaN(coverage) THEN Invalid("Coverage cannot be NaN")
  ELSE IF ~NumberIsFinite(coverage) THEN Invalid("Coverage must be a finite number")
  ELSE IF JsLt(coverage, Pct(0)) THEN Invalid("Coverage cannot be negative")
  ELSE IF JsGt(coverage, Pct(100)) THEN Invalid("Coverage cannot exceed 100%")
  ELSE [isValid |-> TRUE, errorMessage |-> "", normalizedValue |-> coverage]

validateCoverage(coverage) == validateCoverageInternal(coverage).isValid

getZeroCoverageCategory == SIN_COVERAGE

\* the outcome of a call: a returned value or a thrown error
Returned(v) == [threw |-> FALSE, value |-> v, error |-> ""]
Threw(msg) == [threw |-> TRUE, value |-> Undefined, error |-> msg]

\* a plausible slip: the threshold test made exclusive
classify_exclusive(coverage, threshold) ==
  LET validation == validateCoverageInternal(coverage)
      normalizedCoverage == validation.normalizedValue
  IN IF ~validation.isValid
       THEN Threw("Invalid coverage value: " \o validation.errorMessage)
     ELSE IF StrictEq(normalizedCoverage, Num(0)) THEN Returned(getZeroCoverageCategory)
     ELSE IF JsGt(normalizedCoverage, threshold) THEN Returned(SI_PASA_MINIMO)
     ELSE Returned(NO_PASA_MINIMO)

classify(coverage, threshold) ==
  LET validation == validateCoverageInternal(coverage)
      normalizedCoverage == validation.normalizedValue
  IN IF ~validation.isValid
       THEN Threw("Invalid coverage value: " \o validation.errorMessage)
     ELSE IF StrictEq(normalizedCoverage, Num(0)) THEN Returned(getZeroCoverageCategory)
     ELSE IF JsGe(normalizedCoverage, threshold) THEN Returned(SI_PASA_MINIMO)
     ELSE Returned(NO_PASA_MINIMO)

\* a plausible slip: the defaults spread last, so that they win
classifyDetailed_defaultsWin(coverage, config) ==
  LET mergedConfig == Merge(config, DEFAULT_CLASSIFICATION_CONFIG)
      category == classify(coverage, mergedConfig.threshold)
  IN IF category.threw THEN category
     ELSE Returned([category |-> category.value,
                    threshold |-> mergedConfig.threshold,
                    metadata |-> [originalCoverage |-> coverage,
                                  strictZeroClassification |->
                                    mergedConfig.strictZeroClassification,
                                  configUsed |-> mergedConfig]])

classifyDetailed(coverage, config) ==
  LET mergedConfig == Merge(DEFAULT_CLASSIFICATION_CONFIG, config)
      category == classify(coverage, mergedConfig.threshold)
  IN IF category.threw THEN category
     ELSE Returned([category |-> category.value,
                    threshold |-> mergedConfig.threshold,
                    metadata |-> [originalCoverage |-> coverage,
                                  strictZeroClassification |->
                                    mergedConfig.strictZeroClassification,
                                  configUsed |-> mergedConfig]])

(***************************************************************************)
(* ProjectData objects. A project collection is a sequence of references   *)
(* into Heap, so that one object can occur twice in a collection and two   *)
(* distinct objects can hold equal fields.                                 *)
(***************************************************************************)
Metadata(languages, language, qualityGateLanguages) ==
  [languages |-> languages, language |-> language,
   qualityGateLanguages |-> qualityGateLanguages]

ProjectData(name, coveragePercent, metadata, lastAnalysis) ==
  [name |-> Str(name), key |-> Str(name), coveragePercent |-> coveragePercent,
   metadata |-> metadata, lastAnalysis |-> lastAnalysis]

Heap ==
  << ProjectData("fe-app", Pct(0),
                 Metadata(Undefined, Str("ts"), Undefined), Date(1)),
     ProjectData("fe-lib", Num(45 * Scale + Scale \div 2),
                 Metadata(Arr(<<Str("ts"), Str("js")>>), Undefined, Undefined), Date(2)),
     ProjectData("fe-core", Pct(85),
                 Metadata(Undefined, Undefined, Str("java")), Date(3)),
     ProjectData("fe-lib", Num(45 * Scale + Scale \div 2),
                 Metadata(Arr(<<Str("ts"), Str("js")>>), Undefined, Undefined), Date(2)),
     ProjectData("fe-nan", NaN,
                 Metadata(Undefined, Undefined, Undefined), Date(4)) >>

Refs == 1..Len(Heap)

\* the elements of a sequence
Range(seq) == {seq[i] : i \in 1..Len(seq)}

(***************************************************************************)
(* Filter strategies. A strategy object is a record of its class (type)    *)
(* and of the fields its constructor stores; the fields of the other       *)
(* classes are left at their blank values.                                 *)
(***************************************************************************)
Blank ==
  [type |-> "", minCoverage |-> Undefined, maxCoverage |-> Undefined,
   pattern |-> "", flags |-> "", startDate |-> Undefined, endDate |-> Undefined,
   languages |-> <<>>, predicate |-> "", name |-> "", strategies |-> <<>>]

CoverageFilterStrategy(minCoverage, maxCoverage) ==
  [Blank EXCEPT !.type = "coverage", !.minCoverage = minCoverage,
                !.maxCoverage = maxCoverage, !.name = "CoverageFilter"]

NamePatternFilterStrategy(pattern, caseSensitive) ==
  [Blank EXCEPT !.type = "namePattern", !.pattern = pattern,
                !.flags = IF caseSensitive = FALSE THEN "i" ELSE "",
                !.name = "NamePatternFilter"]

DateRangeFilterStrategy(startDate, endDate) ==
  [Blank EXCEPT !.type = "dateRange", !.startDate = startDate,
                !.endDate = endDate, !.name = "DateRangeFilter"]

LanguageFilterStrategy(languages) ==
  [Blank EXCEPT !.type = "language", !.languages = languages,
                !.name = "LanguageFilter"]

PredicateFilterStrategy(predicate, name) ==
  [Blank EXCEPT !.type = "predicate", !.predicate = predicate, !.name = name]

AndFilterStrategy(list) ==
  [Blank EXCEPT !.type = "and", !.strategies = list, !.name = "AndFilter"]

OrFilterStrategy(list) ==
  [Blank EXCEPT !.type = "or", !.strategies = list, !.name = "OrFilter"]

\* the callback of CoverageFilterStrategy.apply
coverageTest(config, project) ==
  LET coverage == project.coveragePercent
  IN IF config.minCoverage # Undefined /\ JsLt(coverage, config.minCoverage) THEN FALSE
     ELSE IF config.maxCoverage # Undefined /\ JsGt(coverage, config.maxCoverage) THEN FALSE
     ELSE TRUE

\* RegExp.prototype.test for the patterns of the model: each pattern with
\* the names it matches without flags and with the flag i
RegexTest(pattern, flags, name) ==
  CASE pattern = "lib" -> name \in {"fe-lib"}
    [] pattern = ".*app" -> name \in {"fe-app"}
    [] pattern = "FE-" -> flags = "i" /\ name \in {"fe-app", "fe-lib", "fe-core", "fe-nan"}
    [] OTHER -> FALSE

\* the callback of NamePatternFilterStrategy.apply
namePatternTest(config, project) == RegexTest(config.pattern, config.flags, project.name.s)

\* the callback of DateRangeFilterStrategy.apply
dateRangeTest(config, project) ==
  LET analysisDate == project.lastAnalysis
  IN IF Truthy(config.startDate) /\ JsLt(analysisDate, config.startDate) THEN FALSE
     ELSE IF Truthy(config.endDate) /\ JsGt(analysisDate, config.endDate) THEN FALSE
     ELSE TRUE

\* an extraction that looks at the singular language field first
extractLanguagesFromMetadata_languageFirst(metadata) ==
  IF Truthy(metadata.language) /\ TypeOf(metadata.language) = "string"
    THEN <<metadata.language>>
  ELSE IF Truthy(metadata.languages) /\ IsArray(metadata.languages)
    THEN metadata.languages.e
  ELSE IF Truthy(metadata.qualityGateLanguages)
    THEN IF IsArray(metadata.qualityGateLanguages)
           THEN metadata.qualityGateLanguages.e
           ELSE <<metadata.qualityGateLanguages>>
  ELSE <<>>

extractLanguagesFromMetadata(metadata) ==
  IF Truthy(metadata.languages) /\ IsArray(metadata.languages)
    THEN metadata.languages.e
  ELSE IF Truthy(metadata.language) /\ TypeOf(metadata.language) = "string"
    THEN <<metadata.language>>
  ELSE IF Truthy(metadata.qualityGateLanguages)
    THEN IF IsArray(metadata.qualityGateLanguages)
           THEN metadata.qualityGateLanguages.e
           ELSE <<metadata.qualityGateLanguages>>
  ELSE <<>>

\* the callback of LanguageFilterStrategy.apply
languageTest(config, project) ==
  LET projectLanguages == extractLanguagesFromMetadata(project.metadata)
  IN \E i \in 1..Len(config.languages) :
       config.languages[i] \in Range(projectLanguages)

\* the predicates handed to PredicateFilterStrategy, each a function of the
\* project alone
CallPredicate(predicate, project) ==
  CASE predicate = "always" -> TRUE
    [] predicate = "isLib" -> project.name = Str("fe-lib")
    [] predicate = "covered" -> JsGt(project.coveragePercent, Num(0))
    [] OTHER -> FALSE

\* a plausible slip: the collected results kept in a list, not a Set
SetAdd_list(results, project) == Append(results, project)

\* Set.prototype.add on a Set kept in insertion order
SetAdd(results, project) ==
  IF project \in Range(results) THEN results ELSE Append(results, project)

RECURSIVE AddFrom(_, _, _)
\* the iteration of forEach over filtered, from its i-th element on
AddFrom(results, filtered, i) ==
  IF i > Len(filtered) THEN results
  ELSE AddFrom(SetAdd(results, filtered[i]), filtered, i + 1)

\* a plausible slip: the iteration started one element late
AddAll_skipFirst(results, filtered) == AddFrom(results, filtered, 2)

\* filtered.forEach(project => results.add(project))
AddAll(results, filtered) == AddFrom(results, filtered, 1)

RECURSIVE apply(_, _)

\* a plausible slip: every strategy applied to the original collection
reduceAnd_unchained(list, projects) ==
  IF list = <<>> THEN projects
  ELSE apply(list[Len(list)], projects)

RECURSIVE reduceAnd(_, _)
\* strategies.reduce((filtered, strategy) => strategy.apply(filtered), projects)
reduceAnd(list, projects) ==
  IF list = <<>> THEN projects
  ELSE reduceAnd(Tail(list), apply(Head(list), projects))

RECURSIVE collectOr(_, _, _)
\* the loop of OrFilterStrategy.apply over the strategies
collectOr(list, projects, results) ==
  IF list = <<>> THEN results
  ELSE collectOr(Tail(list), projects,
                 AddAll(results, apply(Head(list), projects)))

\* OrFilterStrategy.apply
applyOr(list, projects) ==
  IF Len(list) = 0 THEN projects
  ELSE collectOr(list, projects, <<>>)

\* FilterStrategy.apply, dispatched on the class of the strategy; SelectSeq
\* is Array.prototype.filter
apply(strategy, projects) ==
  CASE strategy.type = "coverage" ->
         SelectSeq(projects, LAMBDA o : coverageTest(strategy, Heap[o]))
    [] strategy.type = "namePattern" ->
         SelectSeq(projects, LAMBDA o : namePatternTest(strategy, Heap[o]))
    [] strategy.type = "dateRange" ->
         SelectSeq(projects, LAMBDA o : dateRangeTest(strategy, Heap[o]))
    [] strategy.type = "language" ->
         SelectSeq(projects, LAMBDA o : languageTest(strategy, Heap[o]))
    [] strategy.type = "predicate" ->
         SelectSeq(projects, LAMBDA o : CallPredicate(strategy.predicate, Heap[o]))
    [] strategy.type = "and" -> reduceAnd(strategy.strategies, projects)
    [] strategy.type = "or" -> applyOr(strategy.strategies, projects)

(***************************************************************************)
(* ProjectFilterBuilder                                                    *)
(***************************************************************************)
\* a plausible slip: the single-strategy case left out
build_alwaysCombine(list) ==
  IF Len(list) = 0 THEN PredicateFilterStrategy("always", "NoOpFilter")
  ELSE AndFilterStrategy(list)

\* ProjectFilterBuilder.build, of the builder's strategies
build(list) ==
  IF Len(list) = 0 THEN PredicateFilterStrategy("always", "NoOpFilter")
  ELSE IF Len(list) = 1 THEN list[1]
  ELSE AndFilterStrategy(list)

(***************************************************************************)
(* PapaparseCsvReporter. The data handed to it is a JavaScript value: a    *)
(* non-array, or an array of items, each null or an object with an         *)
(* optional project, a category and a threshold. CSV text is kept as its   *)
(* lines of fields, a field as the text it shows.                          *)
(***************************************************************************)
DEFAULT_CSV_CONFIG ==
  [headers |-> <<"repository", "coverage_percent", "category">>,
   delimiter |-> ",",
   includeHeaders |-> TRUE,
   columnMapping |-> <<>>,
   numberFormat |-> [decimalPlaces |-> Num(2 * Scale), includePercentSign |-> False]]

\* a field showing the string x
Text(x) == [kind |-> "string", s |-> x, units |-> 0, places |-> 0, percent |-> FALSE]
\* a field showing the decimal numeral of units / 10^places, with as many
\* decimals as places, and a percent sign after it
Decimal(units, places, percent) ==
  [kind |-> "decimal", s |-> "", units |-> units, places |-> places, percent |-> percent]
\* a field showing NaN or Infinity
NonFinite(x, percent) ==
  [kind |-> "nonfinite", s |-> x, units |-> 0, places |-> 0, percent |-> percent]

RECURSIVE Pow10(_)
Pow10(d) == IF d = 0 THEN 1 ELSE 10 * Pow10(d - 1)

\* the integer nearest to a / b, the larger of two equally near, for a >= 0
RoundHalfUp(a, b) == (2 * a + b) \div (2 * b)

\* Number.prototype.toFixed on a number, with the digits argument converted
\* as ToIntegerOrInfinity does (undefined and NaN are 0 digits)
ToFixed(v, digits, percent) ==
  LET d == IF ToNumber(digits).t = "num" THEN ToNumber(digits).n \div Scale ELSE 0
  IN CASE v.t = "nan" -> NonFinite("NaN", percent)
       [] v.t = "inf" -> NonFinite("Infinity", percent)
       [] v.t = "ninf" -> NonFinite("-Infinity", percent)
       [] v.n >= 0 -> Decimal(RoundHalfUp(v.n * Pow10(d), Scale), d, percent)
       [] OTHER -> Decimal(0 - RoundHalfUp((0 - v.n) * Pow10(d), Scale), d, percent)

formatCoverage(coverage, numberFormat) ==
  ToFixed(coverage, Get(numberFormat, "decimalPlaces"),
          Truthy(Get(numberFormat, "includePercentSign")))

\* the item of a data array: null, or an object whose project is missing or
\* an object
NullItem ==
  [t |-> "null", project |-> [t |-> "undef", name |-> Undefined, coveragePercent |-> Undefined],
   category |-> Undefined, threshold |-> Undefined]
Item(project, category, threshold) ==
  [t |-> "obj", project |-> project, category |-> category, threshold |-> threshold]
NoProject == [t |-> "undef", name |-> Undefined, coveragePercent |-> Undefined]
Project(name, coveragePercent) ==
  [t |-> "obj", name |-> name, coveragePercent |-> coveragePercent]

NotArray(x) == [isArray |-> FALSE, what |-> x, items |-> <<>>]
DataArray(items) == [isArray |-> TRUE, what |-> "array", items |-> items]

validateData(data) ==
  IF ~data.isArray THEN FALSE
  ELSE IF Len(data.items) = 0 THEN TRUE
  ELSE \A i \in 1..Len(data.items) :
         LET item == data.items[i]
         IN /\ item.t = "obj"
            /\ item.project.t = "obj"
            /\ TypeOf(item.project.name) = "string"
            /\ TypeOf(item.project.coveragePercent) = "number"
            /\ TypeOf(item.category) = "string"
            /\ TypeOf(item.threshold) = "number"

\* the text a string value shows
Shown(v) == Text(v.s)

RECURSIVE ApplyMapping(_, _, _)
\* the loop over Object.entries(config.columnMapping): mappedRow
ApplyMapping(entries, row, mappedRow) ==
  IF entries = <<>> THEN mappedRow
  ELSE LET originalKey == Head(entries)[1]
           mappedKey == Head(entries)[2]
       IN ApplyMapping(Tail(entries), row,
            IF originalKey \in DOMAIN row
              THEN Merge(mappedRow, [k \in {mappedKey} |-> row[originalKey]])
              ELSE mappedRow)

\* the callback of transformDataToCsvRows: the row object of one item
csvRow(item, config) ==
  LET coverage == formatCoverage(item.project.coveragePercent, config.numberFormat)
      row == Merge(Merge([k \in {config.headers[1]} |-> Shown(item.project.name)],
                         [k \in {config.headers[2]} |-> coverage]),
                   [k \in {config.headers[3]} |-> Shown(item.category)])
  IN IF Len(config.columnMapping) > 0
       THEN Merge(row, ApplyMapping(config.columnMapping, row, [k \in {} |-> Text("")]))
       ELSE row

transformDataToCsvRows(data, config) ==
  [i \in 1..Len(data.items) |-> csvRow(data.items[i], config)]

\* a serializer that writes the header line also when there are no rows
Unparse_headerOnly(rows, delimiter, header, columns) ==
  LET line(row) ==
        [c \in 1..Len(columns) |->
           IF columns[c] \in DOMAIN row THEN row[columns[c]] ELSE Text("")]
      body == [i \in 1..Len(rows) |-> line(rows[i])]
      head == [c \in 1..Len(columns) |-> Text(columns[c])]
  IN [delimiter |-> delimiter,
      lines |-> IF header THEN <<head>> \o body ELSE body]

\* Papa.unparse(rows, {delimiter, header, columns}): no text at all for no
\* rows; else the line of the columns, when header is set, and one line a
\* row holding the row's field of each column, an empty field where the row
\* has none
Unparse(rows, delimiter, header, columns) ==
  IF Len(rows) = 0 THEN [delimiter |-> "", lines |-> <<>>]
  ELSE LET line(row) ==
             [c \in 1..Len(columns) |->
                IF columns[c] \in DOMAIN row THEN row[columns[c]] ELSE Text("")]
           body == [i \in 1..Len(rows) |-> line(rows[i])]
           head == [c \in 1..Len(columns) |-> Text(columns[c])]
       IN [delimiter |-> delimiter,
           lines |-> IF header THEN <<head>> \o body ELSE body]

generateDetailed(data, config) ==
  LET mergedConfig == Merge(DEFAULT_CSV_CONFIG, config)
  IN IF ~validateData(data) THEN Threw("Invalid data provided for CSV generation")
     ELSE Returned([content |-> Unparse(transformDataToCsvRows(data, mergedConfig),
                                        mergedConfig.delimiter,
                                        mergedConfig.includeHeaders,
                                        mergedConfig.headers),
                    rowCount |-> Len(data.items),
                    metadata |-> [config |-> mergedConfig]])

generate(data, config) ==
  LET result == generateDetailed(data, config)
  IN IF result.threw THEN result ELSE Returned(result.value.content)

(***************************************************************************)
(* DefaultReportOrchestrator. A thrown value is a record: instance tells   *)
(* whether it is an Error object, message is its text as the sequence of   *)
(* its parts, cause holds the error it wraps, if any.                      *)
(***************************************************************************)
\* new Error(message)
ErrorOf(message) ==
  [instance |-> TRUE, name |-> "Error", message |-> message, phase |-> "", cause |-> <<>>]

\* the state of the promise generateReport returns
Pending == [state |-> "pending", value |-> Undefined, error |-> Undefined]
Resolved(v) == [state |-> "resolved", value |-> v, error |-> Undefined]
Rejected(error) == [state |-> "rejected", value |-> Undefined, error |-> error]

\* the object literal wrapError returns: no Error object itself
wrapError(error, phase) ==
  LET message == IF error.instance THEN error.message ELSE <<"Unknown error occurred">>
      cause == IF error.instance THEN <<error>> ELSE <<>>
  IN [instance |-> FALSE, name |-> "ReportError",
      message |-> <<"Error in ", phase, " phase: ">> \o message,
      phase |-> phase, cause |-> cause]

\* new URL(baseUrl) succeeds: the strings of the model that are URLs
UrlParses(baseUrl) == baseUrl.t = "str" /\ baseUrl.s \in {"https://sonar.example.com"}

validateConfig(config) ==
  LET baseUrl == Get(config.sonarqube, "baseUrl")
      token == Get(config.sonarqube, "token")
      threshold == Get(config.classification, "threshold")
      thrown ==
        IF ~Truthy(baseUrl) THEN <<"SonarQube baseUrl is required">>
        ELSE IF ~Truthy(token) THEN <<"SonarQube token is required">>
        ELSE IF threshold # Undefined
                  /\ (JsLt(threshold, Pct(0)) \/ JsGt(threshold, Pct(100)))
          THEN <<"Classification threshold must be between 0 and 100">>
        ELSE IF ~UrlParses(baseUrl) THEN <<"Invalid SonarQube baseUrl format">>
        ELSE <<>>
  IN IF thrown = <<>> THEN Resolved(TRUE)
     ELSE Rejected(wrapError(ErrorOf(thrown), "config"))

\* a FilterStrategy of the caller whose apply throws
BrokenFilter == [Blank EXCEPT !.type = "broken"]

RECURSIVE applyFilters(_, _)
\* this.filters.reduce((filtered, filter) => filter.apply(filtered), projects)
applyFilters(filters, projects) ==
  IF filters = <<>> THEN Resolved(projects)
  ELSE IF Head(filters).type = "broken" THEN Rejected(ErrorOf(<<"filter failed">>))
  ELSE applyFilters(Tail(filters), apply(Head(filters), projects))

\* the project of a categorized record is the project object itself: the
\* reference, with the fields the reporter reads through it
Referenced(ref) ==
  [t |-> "obj", name |-> Heap[ref].name, coveragePercent |-> Heap[ref].coveragePercent,
   ref |-> ref]

RECURSIVE classifyFrom(_, _, _, _)
\* the map of classifyProjects from the project at index on: the categorized
\* projects, or the error of the first classify that throws with the
\* projects categorized before it
\* a map that fills in the default threshold where the configuration has none
classifyFrom_default(projects, classificationConfig, index, categorized) ==
  IF index > Len(projects) THEN Resolved(categorized)
  ELSE LET project == Heap[projects[index]]
           given == Get(classificationConfig, "threshold")
           threshold == IF given = Undefined THEN Pct(50) ELSE given
           category == classify(project.coveragePercent, threshold)
       IN IF category.threw
            THEN [Rejected(ErrorOf(<<category.error>>)) EXCEPT !.value = categorized]
            ELSE classifyFrom(projects, classificationConfig, index + 1,
                   Append(categorized,
                          Item(Referenced(projects[index]), Str(category.value), threshold)))

classifyFrom(projects, classificationConfig, index, categorized) ==
  IF index > Len(projects) THEN Resolved(categorized)
  ELSE LET project == Heap[projects[index]]
           threshold == Get(classificationConfig, "threshold")
           category == classify(project.coveragePercent, threshold)
       IN IF category.threw
            THEN [Rejected(ErrorOf(<<category.error>>)) EXCEPT !.value = categorized]
            ELSE classifyFrom(projects, classificationConfig, index + 1,
                   Append(categorized,
                          Item(Referenced(projects[index]), Str(category.value), threshold)))

classifyProjects(projects, classificationConfig) ==
  classifyFrom(projects, classificationConfig, 1, <<>>)

\* counts with a key for every category, also those of no project
calculateCategoryCounts_all(projects) ==
  [c \in Categories |->
     Cardinality({i \in 1..Len(projects) : projects[i].category.s = c})]

\* the categories of the categorized projects with the number of projects of
\* each
calculateCategoryCounts(projects) ==
  LET present == {projects[i].category.s : i \in 1..Len(projects)}
  IN [c \in present |->
        Cardinality({i \in 1..Len(projects) : projects[i].category.s = c})]

\* the phases of a run in the order of the statements of generateReport
Phases ==
  <<"config", "authenticate", "fetch", "filter", "classify", "generate", "persist", "done">>

\* the position of a phase in the run
Rank(phase) == CHOOSE i \in 1..Len(Phases) : Phases[i] = phase

\* a run that goes from fetching straight to generating
NextPhase_skip(phase) ==
  IF phase = "fetch" THEN "generate" ELSE Phases[Rank(phase) + 1]

\* the phase whose statements follow those of a phase
NextPhase(phase) == Phases[Rank(phase) + 1]

\* a write whether or not a path is configured
shouldWrite_always(config) == TRUE

\* if (config.outputPath)
shouldWrite(config) == Truthy(Get(config, "outputPath"))

(***************************************************************************)
(* FetchSonarQubeClient.fetchProjects. A response of the server is what    *)
(* makeRequest resolves with; a request that fails is one whose            *)
(* makeRequest rejects.                                                    *)
(***************************************************************************)
\* parseFloat of the strings of the model
ParseFloat(x) ==
  CASE x = "85.0" -> Pct(85)
    [] x = "45.5" -> Num(45 * Scale + Scale \div 2)
    [] x = "0" -> Pct(0)
    [] x = "75" -> Pct(75)
    [] x = "100" -> Pct(100)
    [] x = "150" -> Pct(150)
    [] x = "-5" -> Num(0 - 5 * Scale)
    [] x = "Infinity" -> PosInf
    [] OTHER -> NaN

\* the response of /api/measures/component: component.measures is missing,
\* or an array of measures, each a metric and a value
NoMeasures == [hasMeasures |-> FALSE, measures |-> <<>>]
Measures(list) == [hasMeasures |-> TRUE, measures |-> list]
Measure(metric, value) == [metric |-> metric, value |-> value]

extractCoverageFromMeasures(response) ==
  IF ~response.hasMeasures THEN Pct(0)
  ELSE LET found == SelectSeq(response.measures, LAMBDA m : m.metric = "coverage")
       IN IF found = <<>> THEN Pct(0)
          ELSE IF ~Truthy(Head(found).value) THEN Pct(0)
          ELSE ParseFloat(Head(found).value.s)

\* the sub-requests made for one component: the one of fetchCoverage and the
\* two of fetchProjectMetadata
SubRequests == {"measures", "show", "project_status"}

\* a combination that waits for every promise and then counts as fulfilled
PromiseAll_allSettled(outcomes) ==
  IF \A r \in SubRequests : outcomes[r] # "pending" THEN "fulfilled" ELSE "pending"

\* the state of Promise.all([fetchCoverage, fetchProjectMetadata]) given the
\* outcomes of the sub-requests: rejected as soon as one failed, fulfilled
\* once all succeeded
PromiseAll(outcomes) ==
  IF \E r \in SubRequests : outcomes[r] = "failed" THEN "rejected"
  ELSE IF \A r \in SubRequests : outcomes[r] = "ok" THEN "fulfilled"
  ELSE "pending"

\* the record pushed for a component whose data was fetched
Fetched(component, coverage) ==
  [name |-> component, key |-> component, coveragePercent |-> coverage,
   metadata |-> "fetched"]

\* the record pushed for a component after a failure
Degraded(component) ==
  [name |-> component, key |-> component, coveragePercent |-> Pct(0),
   metadata |-> "Failed to fetch additional data"]

NoConfig == [k \in {} |-> Undefined]

(***************************************************************************)
(* The command line: parseArgs and main. argv is process.argv from index 2 *)
(* on, a sequence of strings.                                              *)
(***************************************************************************)
\* nextArg.startsWith('-') on the strings of the model
StartsWithDash(x) ==
  x \in {"-u", "--sonar-url", "-t", "--sonar-token", "-T", "--threshold", "-o", "--output",
         "-h", "--help", "--bogus", "-5"}

\* the args object parseArgs fills
NoArgs ==
  [sonarUrl |-> Undefined, sonarToken |-> Undefined, threshold |-> Undefined,
   output |-> Undefined, help |-> Undefined]

\* a || b
Or(a, b) == IF Truthy(a) THEN a ELSE b

RECURSIVE parseFrom(_, _, _)
\* the loop of parseArgs from the token at index i on
parseFrom(argv, i, args) ==
  IF i > Len(argv) THEN Returned(args)
  ELSE LET arg == argv[i]
           missing == i + 1 > Len(argv) \/ argv[i + 1] = "" \/ StartsWithDash(argv[i + 1])
       IN CASE arg \in {"--sonar-url", "-u"} ->
                 IF missing THEN Threw("SonarQube URL is required")
                 ELSE parseFrom(argv, i + 2, [args EXCEPT !.sonarUrl = Str(argv[i + 1])])
            [] arg \in {"--sonar-token", "-t"} ->
                 IF missing THEN Threw("SonarQube token is required")
                 ELSE parseFrom(argv, i + 2, [args EXCEPT !.sonarToken = Str(argv[i + 1])])
            [] arg \in {"--threshold", "-T"} ->
                 IF missing THEN Threw("Threshold value is required")
                 ELSE LET threshold == ParseFloat(argv[i + 1])
                      IN IF NumberIsNaN(threshold) \/ JsLt(threshold, Pct(0))
                              \/ JsGt(threshold, Pct(100))
                           THEN Threw("Threshold must be a number between 0 and 100")
                           ELSE parseFrom(argv, i + 2, [args EXCEPT !.threshold = threshold])
            [] arg \in {"--output", "-o"} ->
                 IF missing THEN Threw("Output file path is required")
                 ELSE parseFrom(argv, i + 2, [args EXCEPT !.output = Str(argv[i + 1])])
            [] arg \in {"--help", "-h"} ->
                 parseFrom(argv, i + 1, [args EXCEPT !.help = True])
            [] OTHER ->
                 IF StartsWithDash(arg) THEN Threw("Unknown option")
                 ELSE parseFrom(argv, i + 1, args)

parseArgs(argv) ==
  LET parsed == parseFrom(argv, 1, NoArgs)
  IN IF parsed.threw THEN parsed
     ELSE Returned([sonarUrl |-> Or(parsed.value.sonarUrl, Str("")),
                    sonarToken |-> Or(parsed.value.sonarToken, Str("")),
                    threshold |-> Or(parsed.value.threshold, Pct(50)),
                    output |-> parsed.value.output,
                    help |-> parsed.value.help])

\* the configuration main builds with ReportConfigBuilder
BuildConfig(args, sonarUrl, sonarToken) ==
  LET base == [sonarqube |-> [baseUrl |-> sonarUrl, token |-> sonarToken,
                              timeout |-> Num(30000 * Scale)],
               classification |-> [threshold |-> args.threshold,
                                   strictZeroClassification |-> TRUE],
               csv |-> [headers |-> <<"repository", "coverage_percent", "category">>,
                        includeHeaders |-> TRUE,
                        numberFormat |-> [decimalPlaces |-> Num(2 * Scale),
                                          includePercentSign |-> False]],
               outputPath |-> Undefined]
  IN IF Truthy(args.output) THEN [base EXCEPT !.outputPath = args.output] ELSE base

\* generateReport of the orchestrator main creates, whose client, classifier
\* and reporter are empty objects: after the validation, the call of
\* this.client.authenticate throws a TypeError
StubGenerateReport(config) ==
  LET valid == validateConfig(config)
  IN IF valid.state = "rejected" THEN Rejected(wrapError(valid.error, "generate"))
     ELSE Rejected(wrapError(ErrorOf(<<"this.client.authenticate is not a function">>),
                             "generate"))

\* how a run of main ends: the exit code of the process, what it wrote to
\* standard output, the configuration it built if it got that far
Exit(code, stdout, args, config) ==
  [pc |-> "exited", exitCode |-> code, stdout |-> stdout, args |-> args, config |-> config]

main(argv, env) ==
  LET parsed == parseArgs(argv)
  IN IF parsed.threw THEN Exit(1, "", NoArgs, NoConfig)
     ELSE LET args == parsed.value
              sonarUrl == Or(args.sonarUrl, env.SONAR_URL)
              sonarToken == Or(args.sonarToken, env.SONAR_TOKEN)
              config == BuildConfig(args, sonarUrl, sonarToken)
              result == StubGenerateReport(config)
          IN IF Truthy(args.help) THEN Exit(0, "help", args, NoConfig)
             ELSE IF ~Truthy(sonarUrl) THEN Exit(1, "", args, NoConfig)
             ELSE IF ~Truthy(sonarToken) THEN Exit(1, "", args, NoConfig)
             ELSE IF result.state = "rejected" THEN Exit(1, "", args, config)
             ELSE IF Truthy(args.output) THEN Exit(0, "", args, config)
             ELSE Exit(0, "csv", args, config)

(***************************************************************************)
(* Calls on a SpanishCoverageClassifier. cls records the call: the method, *)
(* its arguments and its outcome. The classifier keeps no state between    *)
(* calls, so that a behaviour makes one call.                              *)
(***************************************************************************)

\* half a percentage point
Half == Scale \div 2

CoverageInputs ==
  { Pct(0), Num(Half), Pct(25), Num(45 * Scale + Half), Pct(50), Pct(75), Pct(100),
    Pct(-1), Num(-1), Num(100 * Scale + 1), Pct(101),
    NaN, PosInf, NegInf, Undefined, Null, Str(""), Str("abc") }

ThresholdInputs ==
  { Pct(0), Pct(25), Num(45 * Scale + Half), Pct(50), Pct(100), Pct(-10), Pct(150),
    NaN, PosInf, NegInf, Undefined }

ConfigInputs ==
  { [threshold |-> t] : t \in ThresholdInputs }
    \cup { [threshold |-> t, strictZeroClassification |-> FALSE] : t \in ThresholdInputs }
    \cup { NoConfig, [strictZeroClassification |-> FALSE] }

ClsIdle ==
  [op |-> "none", coverage |-> Undefined, threshold |-> Undefined,
   config |-> NoConfig, out |-> Returned(Undefined)]

Classify ==
  \E c \in CoverageInputs, t \in ThresholdInputs :
    /\ cls.op = "none"
    /\ cls' = [op |-> "classify", coverage |-> c, threshold |-> t,
               config |-> NoConfig, out |-> classify(c, t)]
    /\ UNCHANGED <<strategies, calls, flt, rep, orc, sq, cli, lng>>

ClassifyDetailed ==
  \E c \in CoverageInputs, cfg \in ConfigInputs :
    /\ cls.op = "none"
    /\ cls' = [op |-> "classifyDetailed", coverage |-> c, threshold |-> Undefined,
               config |-> cfg, out |-> classifyDetailed(c, cfg)]
    /\ UNCHANGED <<strategies, calls, flt, rep, orc, sq, cli, lng>>

ValidateCoverage ==
  \E c \in CoverageInputs :
    /\ cls.op = "none"
    /\ cls' = [op |-> "validateCoverage", coverage |-> c, threshold |-> Undefined,
               config |-> NoConfig, out |-> Returned(validateCoverage(c))]
    /\ UNCHANGED <<strategies, calls, flt, rep, orc, sq, cli, lng>>

(***************************************************************************)
(* Strategies and project collections the calls are made with.             *)
(***************************************************************************)
SeqsUpTo(S, n) == UNION {[1..k -> S] : k \in 0..n}

ProjectInputs == SeqsUpTo(Refs, MaxLen)

CoverageStrategies ==
  { CoverageFilterStrategy(lo, hi) :
      lo \in {Undefined, Pct(0), Pct(40)}, hi \in {Undefined, Pct(0), Pct(50), Pct(90)} }

NameStrategies ==
  { NamePatternFilterStrategy("lib", TRUE), NamePatternFilterStrategy(".*app", FALSE),
    NamePatternFilterStrategy("FE-", TRUE), NamePatternFilterStrategy("FE-", FALSE) }

DateStrategies ==
  { DateRangeFilterStrategy(Date(2), Undefined), DateRangeFilterStrategy(Undefined, Date(2)),
    DateRangeFilterStrategy(Date(2), Date(3)), DateRangeFilterStrategy(Undefined, Undefined) }

LanguageStrategies ==
  { LanguageFilterStrategy(<<Str("ts")>>), LanguageFilterStrategy(<<Str("java"), Str("js")>>),
    LanguageFilterStrategy(<<>>) }

PredicateStrategies ==
  { PredicateFilterStrategy("isLib", "PredicateFilter"),
    PredicateFilterStrategy("covered", "PredicateFilter"),
    PredicateFilterStrategy("always", "NoOpFilter") }

Leaves ==
  CoverageStrategies \cup NameStrategies \cup DateStrategies
    \cup LanguageStrategies \cup PredicateStrategies

CoreLeaves ==
  { CoverageFilterStrategy(Pct(40), Undefined), CoverageFilterStrategy(Undefined, Pct(50)),
    PredicateFilterStrategy("isLib", "PredicateFilter"),
    NamePatternFilterStrategy(".*app", FALSE), LanguageFilterStrategy(<<Str("ts")>>) }

Combinations(S) ==
  { AndFilterStrategy(l) : l \in SeqsUpTo(S, MaxSubs) }
    \cup { OrFilterStrategy(l) : l \in SeqsUpTo(S, MaxSubs) }

Inner ==
  { OrFilterStrategy(<<CoverageFilterStrategy(Pct(40), Undefined),
                       PredicateFilterStrategy("isLib", "PredicateFilter")>>),
    AndFilterStrategy(<<CoverageFilterStrategy(Undefined, Pct(50)),
                        LanguageFilterStrategy(<<Str("ts")>>)>>),
    OrFilterStrategy(<<>>),
    NamePatternFilterStrategy(".*app", FALSE) }

StrategyInputs == Leaves \cup Combinations(CoreLeaves) \cup Combinations(Inner)

\* what the builder is called with
AddInputs ==
  { CoverageFilterStrategy(Pct(40), Undefined), NamePatternFilterStrategy(".*app", FALSE),
    OrFilterStrategy(<<CoverageFilterStrategy(Undefined, Pct(0)),
                       PredicateFilterStrategy("isLib", "PredicateFilter")>>) }

PredicateInputs == {"isLib", "covered"}

GroupInputs ==
  { <<>>, <<CoverageFilterStrategy(Undefined, Pct(50))>>,
    <<LanguageFilterStrategy(<<Str("ts")>>), PredicateFilterStrategy("covered", "PredicateFilter")>> }

(***************************************************************************)
(* Calls on a ProjectFilterBuilder and on filter strategies. The builder   *)
(* is filled first and built once; flt records the strategy at hand (built *)
(* or constructed), the collection it was applied to, the result, and the  *)
(* result of applying it to that result. Strategies keep no state between  *)
(* applications.                                                           *)
(***************************************************************************)
FltIdle ==
  [op |-> "none", target |-> Blank, input |-> <<>>, output |-> <<>>, again |-> <<>>]

Call(method, strategy, predicate, list) ==
  [method |-> method, strategy |-> strategy, predicate |-> predicate, filters |-> list]

Filling == flt.op = "none" /\ Len(strategies) < MaxAdded

AddStrategy ==
  \E strategy \in AddInputs :
    /\ Filling
    /\ strategies' = Append(strategies, strategy)
    /\ calls' = Append(calls, Call("addStrategy", strategy, "", <<>>))
    /\ UNCHANGED <<cls, flt, rep, orc, sq, cli, lng>>

AddPredicate ==
  \E predicate \in PredicateInputs :
    /\ Filling
    /\ strategies' = Append(strategies, PredicateFilterStrategy(predicate, "PredicateFilter"))
    /\ calls' = Append(calls, Call("addPredicate", Blank, predicate, <<>>))
    /\ UNCHANGED <<cls, flt, rep, orc, sq, cli, lng>>

AndGroup ==
  \E filters \in GroupInputs :
    /\ Filling
    /\ strategies' = Append(strategies, AndFilterStrategy(filters))
    /\ calls' = Append(calls, Call("and", Blank, "", filters))
    /\ UNCHANGED <<cls, flt, rep, orc, sq, cli, lng>>

OrGroup ==
  \E filters \in GroupInputs :
    /\ Filling
    /\ strategies' = Append(strategies, OrFilterStrategy(filters))
    /\ calls' = Append(calls, Call("or", Blank, "", filters))
    /\ UNCHANGED <<cls, flt, rep, orc, sq, cli, lng>>

Build ==
  /\ flt.op = "none"
  /\ flt' = [FltIdle EXCEPT !.op = "build", !.target = build(strategies)]
  /\ UNCHANGED <<cls, strategies, calls, rep, orc, sq, cli, lng>>

\* new XFilterStrategy(...)
New ==
  \E strategy \in StrategyInputs :
    /\ flt.op = "none"
    /\ strategies = <<>>
    /\ flt' = [FltIdle EXCEPT !.op = "new", !.target = strategy]
    /\ UNCHANGED <<cls, strategies, calls, rep, orc, sq, cli, lng>>

\* target.apply(projects)
Apply ==
  \E projects \in ProjectInputs :
    /\ flt.op \in {"build", "new"}
    /\ flt' = [op |-> "apply", target |-> flt.target, input |-> projects,
               output |-> apply(flt.target, projects), again |-> <<>>]
    /\ UNCHANGED <<cls, strategies, calls, rep, orc, sq, cli, lng>>

\* target.apply(the result of the last application)
ApplyAgain ==
  /\ flt.op = "apply"
  /\ flt' = [flt EXCEPT !.op = "again", !.again = apply(flt.target, flt.output)]
  /\ UNCHANGED <<cls, strategies, calls, rep, orc, sq, cli, lng>>

(***************************************************************************)
(* Calls on a PapaparseCsvReporter, which keeps no state between calls:    *)
(* rep records the one call of a behaviour.                                *)
(***************************************************************************)
\* items: two well-formed ones, and the first of them with one field
\* changed or missing
GoodItem == Item(Project(Str("project-a"), Num(75 * Scale + Half)), Str(SI_PASA_MINIMO), Pct(50))

ItemInputs ==
  { GoodItem,
    Item(Project(Str("project-c"), Pct(0)), Str(SIN_COVERAGE), Pct(50)),
    [GoodItem EXCEPT !.project.name = Str("")],
    [GoodItem EXCEPT !.project.name = Undefined],
    [GoodItem EXCEPT !.project.coveragePercent = NaN],
    [GoodItem EXCEPT !.project.coveragePercent = Str("abc")],
    [GoodItem EXCEPT !.project.coveragePercent = Undefined],
    [GoodItem EXCEPT !.category = Undefined],
    [GoodItem EXCEPT !.threshold = Undefined],
    [GoodItem EXCEPT !.threshold = Str("abc")],
    [GoodItem EXCEPT !.project = NoProject],
    NullItem }

DataInputs ==
  { DataArray(items) : items \in SeqsUpTo(ItemInputs, MaxLen) }
    \cup { NotArray("null"), NotArray("string") }

CsvConfigInputs ==
  { NoConfig,
    [includeHeaders |-> FALSE],
    [headers |-> <<"name", "coverage", "status">>, delimiter |-> ";",
     numberFormat |-> [decimalPlaces |-> Num(Scale), includePercentSign |-> True]],
    [numberFormat |-> [includePercentSign |-> True]],
    [numberFormat |-> [decimalPlaces |-> Num(Scale)]],
    [columnMapping |-> << <<"repository", "Repo">> >>],
    [columnMapping |-> << <<"repository", "category">> >>] }

RepIdle == [op |-> "none", data |-> NotArray("null"), config |-> NoConfig,
            out |-> Returned(Undefined)]

ValidateData ==
  \E data \in DataInputs :
    /\ rep.op = "none"
    /\ rep' = [op |-> "validateData", data |-> data, config |-> NoConfig,
               out |-> Returned(validateData(data))]
    /\ UNCHANGED <<cls, strategies, calls, flt, orc, sq, cli, lng>>

Generate ==
  \E data \in DataInputs, config \in CsvConfigInputs :
    /\ rep.op = "none"
    /\ rep' = [op |-> "generate", data |-> data, config |-> config,
               out |-> generate(data, config)]
    /\ UNCHANGED <<cls, strategies, calls, flt, orc, sq, cli, lng>>

GenerateDetailed ==
  \E data \in DataInputs, config \in CsvConfigInputs :
    /\ rep.op = "none"
    /\ rep' = [op |-> "generateDetailed", data |-> data, config |-> config,
               out |-> generateDetailed(data, config)]
    /\ UNCHANGED <<cls, strategies, calls, flt, orc, sq, cli, lng>>

(***************************************************************************)
(* A run of generateReport on a DefaultReportOrchestrator. orc holds the   *)
(* arguments, the locals of the run, the promise it returned, and a record *)
(* of what the run did: log lists the calls on the collaborators and on    *)
(* the progress callback, writes the files written, completed the phases   *)
(* that ended without a throw, failed the phase that threw, original the   *)
(* value it threw and fetched what the client returned. The client and the file system are collaborators    *)
(* behind an interface: each of their calls returns or throws.             *)
(***************************************************************************)
SonarqubeInputs ==
  { [baseUrl |-> baseUrl, token |-> token] :
      baseUrl \in {Undefined, Str(""), Str("not a url"), Str("https://sonar.example.com")},
      token \in {Undefined, Str(""), Str("squ_secret")} }

ClassificationInputs ==
  { [threshold |-> threshold] :
      threshold \in {Undefined, Pct(0), Pct(50), Pct(100), Num(0 - 1),
                     Num(100 * Scale + 1), NaN} }

ReportConfigInputs ==
  { [sonarqube |-> sonarqube, classification |-> classification, csv |-> csv,
     outputPath |-> outputPath] :
      sonarqube \in SonarqubeInputs,
      classification \in ClassificationInputs,
      csv \in {NoConfig, [includeHeaders |-> FALSE]},
      outputPath \in {Undefined, Str(""), Str("report.csv")} }
    \cup
  { [sonarqube |-> [baseUrl |-> Str("https://sonar.example.com"), token |-> Str("squ_secret")],
     classification |-> [threshold |-> Pct(50)], csv |-> NoConfig,
     outputPath |-> Undefined, filters |-> filters] :
      filters \in { <<CoverageFilterStrategy(Pct(40), Undefined)>>,
                    <<NamePatternFilterStrategy("lib", TRUE)>> } }

\* the filters the orchestrator is constructed with
FilterInputs ==
  { <<>>,
    <<CoverageFilterStrategy(Pct(40), Undefined)>>,
    <<CoverageFilterStrategy(Undefined, Pct(90)), NamePatternFilterStrategy("lib", TRUE)>>,
    <<OrFilterStrategy(<<NamePatternFilterStrategy("lib", TRUE),
                         CoverageFilterStrategy(Pct(40), Undefined)>>)>>,
    <<BrokenFilter>> }

\* what client.fetchProjects returns: no project, projects of every category,
\* a project twice, and a project whose coverage is NaN
FetchedInputs ==
  { <<>>, <<1>>, <<3, 2>>, <<3, 1, 2>>, <<2, 4>>, <<2, 2>>, <<5>>, <<3, 5>> }

OrcIdle ==
  [pc |-> "idle", config |-> NoConfig, progress |-> FALSE, filters |-> <<>>,
   projects |-> <<>>, filteredProjects |-> <<>>, categorizedProjects |-> <<>>,
   csvContent |-> Undefined, fetched |-> <<>>, log |-> <<>>, writes |-> <<>>, completed |-> <<>>,
   failed |-> "", original |-> Undefined, outcome |-> Pending]

\* a call made in a phase: on a collaborator, or on the progress callback
Event(phase, name) == [phase |-> phase, name |-> name, args |-> <<>>]

\* a call with the arguments that matter: the project of classify, the
\* counts of onFiltering, the project, index and total of onProjectProcessed
EventWith(phase, name, args) == [phase |-> phase, name |-> name, args |-> args]

\* the calls on the progress callback are made when the caller passed one
Callback(o, phase, name) == IF o.progress THEN <<Event(phase, name)>> ELSE <<>>
CallbackWith(o, phase, name, args) ==
  IF o.progress THEN <<EventWith(phase, name, args)>> ELSE <<>>

\* the phase at hand ended without a throw
Advance(o, phase) ==
  [o EXCEPT !.pc = NextPhase(phase), !.completed = Append(o.completed, phase)]

\* the catch of generateReport: the run ends, the promise rejects with the
\* wrapped error
Catch(o, phase, error) ==
  [o EXCEPT !.pc = "rejected", !.failed = phase, !.original = error,
            !.outcome = Rejected(wrapError(error, "generate"))]

GenerateReport ==
  \E config \in ReportConfigInputs, progress \in BOOLEAN, filters \in FilterInputs :
    /\ orc.pc = "idle"
    /\ LET o == [orc EXCEPT !.config = config, !.progress = progress,
                            !.filters = filters,
                            !.log = <<Event("config", "validateConfig")>>]
           valid == validateConfig(config)
       IN orc' = IF valid.state = "rejected"
                   THEN Catch(o, "config", valid.error)
                   ELSE Advance(o, "config")
    /\ UNCHANGED <<cls, strategies, calls, flt, rep, sq, cli, lng>>

Authenticate ==
  \E ok \in BOOLEAN :
    /\ orc.pc = "authenticate"
    /\ LET o == [orc EXCEPT !.log = @ \o <<Event("authenticate", "client.authenticate")>>]
       IN orc' = IF ok THEN Advance(o, "authenticate")
                 ELSE Catch(o, "authenticate",
                            ErrorOf(<<"Failed to authenticate with SonarQube">>))
    /\ UNCHANGED <<cls, strategies, calls, flt, rep, sq, cli, lng>>

FetchProjects ==
  \E ok \in BOOLEAN, projects \in FetchedInputs :
    /\ orc.pc = "fetch"
    /\ ok \/ projects = <<>>
    /\ LET o == [orc EXCEPT !.log = @ \o Callback(orc, "fetch", "onFetchingProjects")
                                     \o <<Event("fetch", "client.fetchProjects")>>]
       IN orc' = IF ok THEN Advance([o EXCEPT !.projects = projects,
                                              !.fetched = projects], "fetch")
                 ELSE Catch(o, "fetch", ErrorOf(<<"Failed to fetch projects">>))
    /\ UNCHANGED <<cls, strategies, calls, flt, rep, sq, cli, lng>>

ApplyFilters ==
  /\ orc.pc = "filter"
  /\ LET filtered == applyFilters(orc.filters, orc.projects)
         o == [orc EXCEPT !.log = @ \o [i \in 1..Len(orc.filters) |->
                                          Event("filter", "filter.apply")]]
     IN orc' = IF filtered.state = "rejected"
                 THEN Catch(o, "filter", filtered.error)
                 ELSE Advance([o EXCEPT !.filteredProjects = filtered.value,
                                        !.log = @ \o CallbackWith(orc, "filter", "onFiltering",
                                                       <<Len(orc.projects),
                                                         Len(filtered.value)>>)],
                              "filter")
  /\ UNCHANGED <<cls, strategies, calls, flt, rep, sq, cli, lng>>

\* calls that classify every project first and report the progress after
ClassifyEvents_batched(o, projects, n) ==
  [i \in 1..n |-> EventWith("classify", "classifier.classify", <<projects[i]>>)]
    \o (IF o.progress
          THEN [i \in 1..n |-> EventWith("classify", "onProjectProcessed",
                                         <<projects[i], i, Len(projects)>>)]
          ELSE <<>>)

\* the calls of classifyProjects that categorized the first n projects: for
\* each, classifier.classify and then onProjectProcessed with the project,
\* index + 1 and projects.length
ClassifyEvents(o, projects, n) ==
  IF o.progress
    THEN [i \in 1..(2 * n) |->
            IF i % 2 = 1
              THEN EventWith("classify", "classifier.classify", <<projects[(i + 1) \div 2]>>)
              ELSE EventWith("classify", "onProjectProcessed",
                             <<projects[i \div 2], i \div 2, Len(projects)>>)]
    ELSE [i \in 1..n |-> EventWith("classify", "classifier.classify", <<projects[i]>>)]

ClassifyProjects ==
  /\ orc.pc = "classify"
  /\ LET categorized == classifyProjects(orc.filteredProjects, orc.config.classification)
         n == Len(categorized.value)
         o == [orc EXCEPT !.log = @ \o ClassifyEvents(orc, orc.filteredProjects, n),
                          !.categorizedProjects = categorized.value]
     IN orc' = IF categorized.state = "rejected"
                 THEN Catch([o EXCEPT !.log = @ \o <<EventWith("classify", "classifier.classify",
                                                        <<orc.filteredProjects[n + 1]>>)>>],
                            "classify", categorized.error)
                 ELSE Advance(o, "classify")
  /\ UNCHANGED <<cls, strategies, calls, flt, rep, sq, cli, lng>>

GenerateCsv ==
  /\ orc.pc = "generate"
  /\ LET csv == generate(DataArray(orc.categorizedProjects), orc.config.csv)
         o == [orc EXCEPT !.log = @ \o Callback(orc, "generate", "onGeneratingCsv")
                                     \o <<Event("generate", "reporter.generate")>>]
     IN orc' = IF csv.threw THEN Catch(o, "generate", ErrorOf(<<csv.error>>))
               ELSE Advance([o EXCEPT !.csvContent = csv.value], "generate")
  /\ UNCHANGED <<cls, strategies, calls, flt, rep, sq, cli, lng>>

WriteToFile ==
  \E ok \in BOOLEAN :
    /\ orc.pc = "persist"
    /\ ok \/ shouldWrite(orc.config)
    /\ LET path == Get(orc.config, "outputPath")
           o == [orc EXCEPT !.log = @ \o <<Event("persist", "reporter.writeToFile")>>,
                            !.writes = Append(@, [csv |-> orc.csvContent, path |-> path])]
       IN orc' = IF ~shouldWrite(orc.config) THEN Advance(orc, "persist")
                 ELSE IF ok THEN Advance(o, "persist")
                 ELSE Catch(o, "persist",
                            ErrorOf(<<"Failed to write CSV file to ", path.s, ": ", "EACCES">>))
    /\ UNCHANGED <<cls, strategies, calls, flt, rep, sq, cli, lng>>

Complete ==
  /\ orc.pc = "done"
  /\ orc.outcome.state = "pending"
  /\ LET result == [csvContent |-> orc.csvContent,
                    projectCount |-> Len(orc.categorizedProjects),
                    categoryCounts |-> calculateCategoryCounts(orc.categorizedProjects),
                    metadata |-> [config |-> orc.config]]
     IN orc' = [orc EXCEPT !.log = @ \o Callback(orc, "done", "onComplete"),
                           !.completed = Append(@, "done"),
                           !.outcome = Resolved(result)]
  /\ UNCHANGED <<cls, strategies, calls, flt, rep, sq, cli, lng>>

(***************************************************************************)
(* A call of fetchProjects. sq holds the components of the search          *)
(* response, the index of the component the loop of                        *)
(* transformProjectsResponse awaits, the outcomes of its sub-requests, the *)
(* requests in flight (also those of earlier components, left behind by a  *)
(* rejected Promise.all), the records pushed and the warnings logged;      *)
(* failures lists the components of which a sub-request failed.            *)
(***************************************************************************)
\* the search response: components missing, or a list of components
ComponentInputs == { <<>>, <<"fe-app">>, <<"fe-core", "fe-app">> }

\* the responses to the request of fetchCoverage
MeasuresInputs ==
  { NoMeasures,
    Measures(<<Measure("ncloc", Str("120"))>>),
    Measures(<<Measure("coverage", Undefined)>>),
    Measures(<<Measure("ncloc", Str("120")), Measure("coverage", Str("45.5"))>>),
    Measures(<<Measure("coverage", Str("0"))>>),
    Measures(<<Measure("coverage", Str("abc"))>>) }

NoOutcomes == [r \in SubRequests |-> "pending"]

SqIdle ==
  [pc |-> "idle", hasComponents |-> FALSE, components |-> <<>>, index |-> 0,
   outcomes |-> NoOutcomes, coverage |-> Undefined, inflight |-> {},
   projects |-> <<>>, warnings |-> 0, failures |-> {}, result |-> <<>>]

\* the loop of transformProjectsResponse reaches the component at index: it
\* issues the sub-requests of the component, or returns the projects after
\* the last one
Iterate(s, index) ==
  IF index > Len(s.components)
    THEN [s EXCEPT !.pc = "returned", !.index = index, !.result = s.projects]
    ELSE [s EXCEPT !.pc = "loop", !.index = index, !.outcomes = NoOutcomes,
                   !.coverage = Undefined,
                   !.inflight = @ \cup {<<index, r>> : r \in SubRequests}]

\* fetchProjects is called; the search request fails, or its response has no
\* components array, or it has one
ClientFetchProjects ==
  \E ok \in BOOLEAN, hasComponents \in BOOLEAN, components \in ComponentInputs :
    /\ sq.pc = "idle"
    /\ (~ok \/ ~hasComponents) => components = <<>>
    /\ ok \/ hasComponents
    /\ sq' = IF ~ok THEN [sq EXCEPT !.pc = "threw"]
             ELSE IF ~hasComponents THEN [sq EXCEPT !.pc = "returned"]
             ELSE Iterate([sq EXCEPT !.hasComponents = TRUE, !.components = components], 1)
    /\ UNCHANGED <<cls, strategies, calls, flt, rep, orc, cli, lng>>

\* a sub-request in flight completes; what the loop does with it when it is
\* one of the component it awaits
Respond ==
  \E request \in sq.inflight, ok \in BOOLEAN, response \in MeasuresInputs :
    /\ (~ok \/ request[2] # "measures") => response = NoMeasures
    /\ LET left == [sq EXCEPT !.inflight = @ \ {request},
                              !.failures = IF ok THEN @ ELSE @ \cup {request[1]}]
           awaited == sq.pc = "loop" /\ request[1] = sq.index
           now == [left EXCEPT !.outcomes[request[2]] = IF ok THEN "ok" ELSE "failed",
                               !.coverage = IF ok /\ request[2] = "measures"
                                              THEN extractCoverageFromMeasures(response)
                                              ELSE @]
           all == PromiseAll(now.outcomes)
           component == sq.components[sq.index]
       IN sq' = IF ~awaited THEN left
                ELSE IF all = "fulfilled"
                  THEN Iterate([now EXCEPT !.projects =
                                  Append(@, Fetched(component, now.coverage))],
                               sq.index + 1)
                ELSE IF all = "rejected"
                  THEN Iterate([now EXCEPT !.projects = Append(@, Degraded(component)),
                                           !.warnings = @ + 1],
                               sq.index + 1)
                ELSE now
    /\ UNCHANGED <<cls, strategies, calls, flt, rep, orc, cli, lng>>

(***************************************************************************)
(* A run of the command line: cli holds the arguments and the environment  *)
(* of the process and how main ended.                                      *)
(***************************************************************************)
ArgvInputs ==
  { u \o t \o th \o out \o rest :
      u \in { <<>>, <<"-u", "https://sonar.example.com">>, <<"--sonar-url", "not a url">>,
              <<"-u">> },
      t \in { <<>>, <<"-t", "squ_secret">> },
      th \in { <<>>, <<"-T", "0">>, <<"-T", "75">>, <<"--threshold", "100">>,
               <<"-T", "150">>, <<"-T", "abc">>, <<"-T", "-5">> },
      out \in { <<>>, <<"-o", "report.csv">> },
      rest \in { <<>>, <<"-h">>, <<"--bogus">>, <<"extra">> } }

EnvInputs ==
  { [SONAR_URL |-> url, SONAR_TOKEN |-> token] :
      url \in {Undefined, Str("https://sonar.example.com")},
      token \in {Undefined, Str("squ_env")} }

CliIdle ==
  [pc |-> "idle", argv |-> <<>>, env |-> [SONAR_URL |-> Undefined, SONAR_TOKEN |-> Undefined],
   exit |-> Exit(0, "", NoArgs, NoConfig)]

Main ==
  \E argv \in ArgvInputs, env \in EnvInputs :
    /\ cli.pc = "idle"
    /\ cli' = [pc |-> "exited", argv |-> argv, env |-> env, exit |-> main(argv, env)]
    /\ UNCHANGED <<cls, strategies, calls, flt, rep, orc, sq, lng>>

(***************************************************************************)
(* A call of LanguageFilterStrategy.apply on projects whose metadata holds *)
(* language fields of every shape: lng records the strategy, the projects  *)
(* and the projects returned.                                              *)
(***************************************************************************)
MetadataInputs ==
  { Metadata(Undefined, Undefined, Undefined),
    Metadata(Arr(<<Str("ts"), Str("js")>>), Str("java"), Str("go")),
    Metadata(Arr(<<>>), Str("java"), Undefined),
    Metadata(Str("ts"), Str("java"), Undefined),
    Metadata(Undefined, Str("java"), Arr(<<Str("go")>>)),
    Metadata(Undefined, Undefined, Str("go")),
    Metadata(Undefined, Undefined, Arr(<<Str("go"), Str("ts")>>)),
    Metadata(Undefined, Str(""), Str("go")),
    Metadata(Undefined, Str(""), Undefined),
    Metadata(Undefined, True, Undefined) }

LanguageInputs ==
  { <<>>, <<Str("ts")>>, <<Str("java"), Str("js")>>, <<Str("go")>>, <<Str("")>> }

LanguageProjectInputs ==
  SeqsUpTo({ProjectData("fe-app", Pct(50), metadata, Date(1)) : metadata \in MetadataInputs},
           MaxLen)

LngIdle == [op |-> "none", strategy |-> LanguageFilterStrategy(<<>>), projects |-> <<>>,
            out |-> <<>>]

ApplyLanguage ==
  \E languages \in LanguageInputs, projects \in LanguageProjectInputs :
    /\ lng.op = "none"
    /\ LET strategy == LanguageFilterStrategy(languages)
       IN lng' = [op |-> "apply", strategy |-> strategy, projects |-> projects,
                  out |-> SelectSeq(projects, LAMBDA project : languageTest(strategy, project))]
    /\ UNCHANGED <<cls, strategies, calls, flt, rep, orc, sq, cli>>

Init ==
  /\ cls = ClsIdle
  /\ strategies = <<>>
  /\ calls = <<>>
  /\ flt = FltIdle
  /\ rep = RepIdle
  /\ orc = OrcIdle
  /\ sq = SqIdle
  /\ cli = CliIdle
  /\ lng = LngIdle

NextClassifier == Classify \/ ClassifyDetailed \/ ValidateCoverage
SpecClassifier == Init /\ [][NextClassifier]_vars

NextFilter == New \/ Apply \/ ApplyAgain
SpecFilter == Init /\ [][NextFilter]_vars

NextBuilder == AddStrategy \/ AddPredicate \/ AndGroup \/ OrGroup \/ Build \/ Apply
SpecBuilder == Init /\ [][NextBuilder]_vars

NextReporter == ValidateData \/ Generate \/ GenerateDetailed
SpecReporter == Init /\ [][NextReporter]_vars

NextOrchestrator ==
  \/ GenerateReport
  \/ Authenticate
  \/ FetchProjects
  \/ ApplyFilters
  \/ ClassifyProjects
  \/ GenerateCsv
  \/ WriteToFile
  \/ Complete
SpecOrchestrator == Init /\ [][NextOrchestrator]_vars

NextClient == ClientFetchProjects \/ Respond
SpecClient == Init /\ [][NextClient]_vars

NextLanguage == ApplyLanguage
SpecLanguage == Init /\ [][NextLanguage]_vars

NextCli == Main
SpecCli == Init /\ [][NextCli]_vars

Next == NextClassifier \/ NextFilter \/ NextBuilder \/ NextReporter \/ NextOrchestrator
          \/ NextClient \/ NextCli \/ NextLanguage
Spec == Init /\ [][Next]_vars

(***************************************************************************)
(* Claims about the classifier, checked on SpecClassifier.                 *)
(***************************************************************************)
\* c is a finite number with 0 <= c <= 100
InRange(c) == c.t = "num" /\ 0 <= c.n /\ c.n <= 100 * Scale

\* c >= t for a finite number c: true of a finite t not above c and of
\* -Infinity, false of NaN, undefined and +Infinity
AtLeast(c, t) == (t.t = "num" /\ c.n >= t.n) \/ t.t = "ninf"

\* C1: for a coverage c in [0, 100] and any threshold t, classify(c, t)
\* returns 'Sin coverage' when c = 0, else 'Si pasa el mínimo esperado' when
\* c >= t, else 'No pasa del mínimo esperado': one of the three categories.
C1_ClassifyCascade ==
  (cls.op = "classify" /\ InRange(cls.coverage)) =>
    /\ ~cls.out.threw
    /\ cls.out.value \in Categories
    /\ cls.out.value =
         IF cls.coverage.n = 0 THEN SIN_COVERAGE
         ELSE IF AtLeast(cls.coverage, cls.threshold) THEN SI_PASA_MINIMO
         ELSE NO_PASA_MINIMO

\* classify(t, t) with t > 0 passed
C1_Witness ==
  /\ cls.op = "classify"
  /\ cls.coverage = cls.threshold
  /\ InRange(cls.coverage)
  /\ cls.coverage.n > 0
  /\ cls.out.value = SI_PASA_MINIMO

\* C2: classify fails with a validation error, returning no category, for
\* every coverage that is not a finite number in [0, 100]; validateCoverage
\* returns true exactly for the finite numbers in [0, 100] and never throws.
C2_Validation ==
  /\ (cls.op = "classify" /\ ~InRange(cls.coverage)) =>
       /\ cls.out.threw
       /\ cls.out.error # ""
       /\ cls.out.value = Undefined
  /\ cls.op = "validateCoverage" =>
       /\ ~cls.out.threw
       /\ cls.out.value = InRange(cls.coverage)

\* classify was called with a coverage above 100 and threw
C2_Witness ==
  /\ cls.op = "classify"
  /\ cls.coverage = Pct(101)
  /\ cls.out.threw

\* C3: for a config with threshold t, classifyDetailed(c, config) fails
\* exactly when classify(c, t) fails and otherwise returns category =
\* classify(c, t), threshold = t and metadata.originalCoverage = c.
C3_DetailedAgrees ==
  (cls.op = "classifyDetailed" /\ "threshold" \in DOMAIN cls.config) =>
    LET plain == classify(cls.coverage, cls.config.threshold)
    IN /\ cls.out.threw = plain.threw
       /\ ~plain.threw =>
            /\ cls.out.value.category = plain.value
            /\ cls.out.value.threshold = cls.config.threshold
            /\ cls.out.value.metadata.originalCoverage = cls.coverage

\* classifyDetailed(25, {threshold: 25}) passed, which the default threshold
\* would not decide so
C3_Witness ==
  /\ cls.op = "classifyDetailed"
  /\ "threshold" \in DOMAIN cls.config
  /\ cls.config.threshold = Pct(25)
  /\ cls.coverage = Pct(25)
  /\ ~cls.out.threw
  /\ cls.out.value.category = SI_PASA_MINIMO

(***************************************************************************)
(* Claims about the filter strategies, checked on SpecFilter.              *)
(***************************************************************************)
Count(x, seq) == Cardinality({i \in 1..Len(seq) : seq[i] = x})

NoDuplicates(seq) == \A i, j \in 1..Len(seq) : seq[i] = seq[j] => i = j

\* the first position of x in seq
FirstIndex(x, seq) == CHOOSE i \in 1..Len(seq) : seq[i] = x /\ \A j \in 1..(i - 1) : seq[j] # x

RECURSIVE IsSubsequence(_, _)
\* a is b with some elements left out, the others in b's order
IsSubsequence(a, b) ==
  IF a = <<>> THEN TRUE
  ELSE IF b = <<>> THEN FALSE
  ELSE IF Head(a) = Head(b) THEN IsSubsequence(Tail(a), Tail(b))
  ELSE IsSubsequence(a, Tail(b))

\* a holds only elements of b, none more often than b does
IsSubMultiset(a, b) == \A x \in Range(a) : Count(x, a) <= Count(x, b)

RECURSIVE HasWideOr(_)
\* the strategy is, or combines, an OrFilterStrategy of two or more strategies
HasWideOr(strategy) ==
  \/ strategy.type = "or" /\ Len(strategy.strategies) >= 2
  \/ \E i \in 1..Len(strategy.strategies) : HasWideOr(strategy.strategies[i])

Applied == flt.op = "apply"

\* C4 as stated: the result of every strategy, AND and OR combinations
\* included, is a subsequence of the input: only elements of the input, none
\* more often than in the input, in the input's relative order.
C4_Original == Applied => IsSubsequence(flt.output, flt.input)

\* C4 as amended: the result of every strategy holds only elements of the
\* input and none more often than the input does; it keeps the input's
\* relative order whenever no OrFilterStrategy of two or more sub-strategies is
\* involved.
C4_SubMultiset ==
  Applied =>
    /\ IsSubMultiset(flt.output, flt.input)
    /\ ~HasWideOr(flt.target) => IsSubsequence(flt.output, flt.input)

\* an OR of two strategies returned both projects of the input in the
\* opposite order
C4_Witness ==
  /\ Applied
  /\ flt.target.type = "or"
  /\ Len(flt.input) = 2
  /\ Len(flt.output) = 2
  /\ flt.output[1] = flt.input[2]
  /\ flt.output[2] = flt.input[1]
  /\ flt.input[1] # flt.input[2]

RECURSIVE ConcatOutputs(_, _)
\* the outputs of the strategies of list, each applied to projects, one
\* after the other
ConcatOutputs(list, projects) ==
  IF list = <<>> THEN <<>>
  ELSE apply(Head(list), projects) \o ConcatOutputs(Tail(list), projects)

\* result holds the elements of seq once each, in the order of their first
\* appearance in seq
IsFirstSeenUnion(result, seq) ==
  /\ Range(result) = Range(seq)
  /\ NoDuplicates(result)
  /\ \A i, j \in 1..Len(result) :
       i < j => FirstIndex(result[i], seq) < FirstIndex(result[j], seq)

AppliedOr == Applied /\ flt.target.type = "or"

\* C5 as stated: an OrFilterStrategy over zero or more sub-strategies
\* returns the union of the sub-strategies' outputs on the original input,
\* no project twice, in order of first appearance.
C5_Original ==
  AppliedOr =>
    IsFirstSeenUnion(flt.output, ConcatOutputs(flt.target.strategies, flt.input))

\* C5 as amended: an OrFilterStrategy over one or more sub-strategies returns
\* that union; over zero sub-strategies it returns the input as it is.
C5_UnionOrInput ==
  AppliedOr =>
    IF Len(flt.target.strategies) = 0 THEN flt.output = flt.input
    ELSE IsFirstSeenUnion(flt.output, ConcatOutputs(flt.target.strategies, flt.input))

\* an OR of two strategies whose outputs share a project returned it once
C5_Witness ==
  /\ AppliedOr
  /\ Len(flt.target.strategies) = 2
  /\ Len(flt.output) = 2
  /\ Range(apply(flt.target.strategies[1], flt.input))
       \cap Range(apply(flt.target.strategies[2], flt.input)) # {}

\* the strategy tests each project on its own
IsPredicateStrategy(strategy) == strategy.type \notin {"and", "or"}

\* the strategy keeps the project
Accepts(strategy, o) == apply(strategy, <<o>>) = <<o>>

\* projects passed through the strategies of list one after the other
Chained(list, projects) ==
  LET step[i \in 0..Len(list)] ==
        IF i = 0 THEN projects ELSE apply(list[i], step[i - 1])
  IN step[Len(list)]

Permuted(list, p) == [i \in 1..Len(list) |-> list[p[i]]]

\* C6: an AndFilterStrategy passes the input through its sub-strategies in
\* listed order; over sub-strategies that test each project on its own, the
\* result is the set of projects all of them accept, whatever the order of
\* the list.
C6_AndIntersection ==
  (Applied /\ flt.target.type = "and") =>
    LET list == flt.target.strategies
        accepted == {o \in Range(flt.input) : \A i \in 1..Len(list) : Accepts(list[i], o)}
    IN /\ flt.output = Chained(list, flt.input)
       /\ (\A i \in 1..Len(list) : IsPredicateStrategy(list[i])) =>
            /\ Range(flt.output) = accepted
            /\ \A p \in Permutations(1..Len(list)) :
                 Range(apply(AndFilterStrategy(Permuted(list, p)), flt.input)) = accepted

\* an AND of two different tests kept a project of the input and dropped
\* one that the first test alone keeps
C6_Witness ==
  /\ Applied
  /\ flt.target.type = "and"
  /\ Len(flt.target.strategies) = 2
  /\ IsPredicateStrategy(flt.target.strategies[1])
  /\ IsPredicateStrategy(flt.target.strategies[2])
  /\ flt.target.strategies[1] # flt.target.strategies[2]
  /\ Len(flt.output) = 1
  /\ Len(apply(flt.target.strategies[1], flt.input)) = 2

\* C8 as stated: a CoverageFilterStrategy keeps a project exactly when
\* (minCoverage is unset or coveragePercent >= minCoverage) and (maxCoverage
\* is unset or coveragePercent <= maxCoverage).
C8_Original ==
  (Applied /\ flt.target.type = "coverage") =>
    \A i \in 1..Len(flt.input) :
      LET coverage == Heap[flt.input[i]].coveragePercent
      IN (flt.input[i] \in Range(flt.output)) <=>
           /\ flt.target.minCoverage = Undefined \/ JsGe(coverage, flt.target.minCoverage)
           /\ flt.target.maxCoverage = Undefined \/ JsLe(coverage, flt.target.maxCoverage)

\* C9: applying a strategy to its own output yields the same set of projects
\* as applying it once.
C9_Idempotent == flt.op = "again" => Range(flt.again) = Range(flt.output)

\* a combination was applied to its own output, which is a proper part of
\* the input
C9_Witness ==
  /\ flt.op = "again"
  /\ flt.target.type = "or"
  /\ Len(flt.target.strategies) = 2
  /\ Len(flt.output) = 1
  /\ Len(flt.input) = 2
  /\ flt.again = flt.output

(***************************************************************************)
(* Claims about the builder, checked on SpecBuilder.                       *)
(***************************************************************************)
\* the strategy a call on the builder adds
StrategyOfCall(c) ==
  CASE c.method = "addStrategy" -> c.strategy
    [] c.method = "addPredicate" -> PredicateFilterStrategy(c.predicate, "PredicateFilter")
    [] c.method = "and" -> AndFilterStrategy(c.filters)
    [] c.method = "or" -> OrFilterStrategy(c.filters)

Added == [i \in 1..Len(calls) |-> StrategyOfCall(calls[i])]

\* C7: build() returns a strategy that keeps every project when nothing was
\* added, the added strategy itself when one was added, and otherwise the
\* AND-combination of the added strategies in the order they were added.
C7_Build ==
  flt.op = "build" =>
    /\ Len(calls) = 0 => \A projects \in ProjectInputs : apply(flt.target, projects) = projects
    /\ Len(calls) = 1 => flt.target = Added[1]
    /\ Len(calls) >= 2 => flt.target = AndFilterStrategy(Added)

\* build() after addStrategy and or
C7_Witness ==
  /\ flt.op = "build"
  /\ Len(calls) = 2
  /\ calls[1].method = "addStrategy"
  /\ calls[2].method = "or"
  /\ flt.target.type = "and"

(***************************************************************************)
(* Claims about the reporter, checked on SpecReporter.                     *)
(***************************************************************************)
\* the data is a sequence whose every element has a non-empty string project
\* name, a numeric coverage, a string category and a numeric threshold
WellFormed(data) ==
  /\ data.isArray
  /\ \A i \in 1..Len(data.items) :
       LET item == data.items[i]
       IN /\ item.t = "obj"
          /\ item.project.t = "obj"
          /\ item.project.name.t = "str"
          /\ item.project.name.s # ""
          /\ TypeOf(item.project.coveragePercent) = "number"
          /\ item.category.t = "str"
          /\ TypeOf(item.threshold) = "number"

\* C10 as stated: validateData returns true exactly for a sequence whose
\* every element has a non-empty string project name, a numeric coverage, a
\* string category and a numeric threshold; generate and generateDetailed
\* throw, returning no text, whenever validateData is false.
C10_Original ==
  /\ rep.op = "validateData" => rep.out.value = WellFormed(rep.data)
  /\ (rep.op \in {"generate", "generateDetailed"} /\ ~validateData(rep.data)) =>
       /\ rep.out.threw
       /\ rep.out.value = Undefined

\* the call at hand is a generate or generateDetailed that returned
Generated == rep.op \in {"generate", "generateDetailed"} /\ ~rep.out.threw

\* the CSV text the call at hand returned
Content == IF rep.op = "generate" THEN rep.out.value ELSE rep.out.value.content

\* the configuration the call at hand worked with
Effective == Merge(DEFAULT_CSV_CONFIG, rep.config)

\* the data rows of the returned text: its lines after the header row
DataRows(config, content) ==
  IF config.includeHeaders /\ Len(content.lines) > 0
    THEN Tail(content.lines) ELSE content.lines

\* the row of the project name, the formatted coverage and the category
Triple(item, config) ==
  << Text(item.project.name.s),
     formatCoverage(item.project.coveragePercent, config.numberFormat),
     Text(item.category.s) >>

\* C11 as stated: for every valid non-empty input sequence the text has one
\* data row per input record, in input order, each holding the project name,
\* the formatted coverage and the category in this order; the header row
\* comes first when headers are enabled; generateDetailed reports rowCount
\* equal to the number of records.
C11_Original ==
  (Generated /\ Len(rep.data.items) > 0) =>
    LET rows == DataRows(Effective, Content)
    IN /\ Len(rows) = Len(rep.data.items)
       /\ \A i \in 1..Len(rows) : rows[i] = Triple(rep.data.items[i], Effective)
       /\ Effective.includeHeaders =>
            /\ Len(Content.lines) = Len(rep.data.items) + 1
            /\ \A c \in 1..3 : Content.lines[1][c].kind = "string"
       /\ rep.op = "generateDetailed" => rep.out.value.rowCount = Len(rep.data.items)

\* C12: for the empty input sequence and any CSV configuration, headers
\* enabled or not, generate returns the empty text, without a header row, and
\* generateDetailed reports rowCount 0.
C12_EmptyInput ==
  (rep.op \in {"generate", "generateDetailed"} /\ rep.data = DataArray(<<>>)) =>
    /\ ~rep.out.threw
    /\ Content.lines = <<>>
    /\ rep.op = "generateDetailed" => rep.out.value.rowCount = 0

\* an empty input was formatted with the headers enabled
C12_Witness ==
  /\ rep.op = "generateDetailed"
  /\ rep.data = DataArray(<<>>)
  /\ Effective.includeHeaders
  /\ rep.out.value.rowCount = 0

\* the caller's configuration has a numberFormat with the field key
Supplied(key) ==
  /\ "numberFormat" \in DOMAIN rep.config
  /\ key \in DOMAIN rep.config.numberFormat

\* C13 as stated: the coverage field has numberFormat.decimalPlaces decimals
\* when the caller supplied that value and 2 decimals when the caller did
\* not, and ends in a percent sign exactly when the caller supplied
\* includePercentSign = true, also for a numberFormat with one field only.
C13_Original ==
  Generated =>
    LET rows == DataRows(Effective, Content)
        places == IF Supplied("decimalPlaces")
                    THEN rep.config.numberFormat.decimalPlaces.n \div Scale
                    ELSE 2
        percent == Supplied("includePercentSign")
                     /\ rep.config.numberFormat.includePercentSign = True
    IN \A i \in 1..Len(rows) :
         /\ rows[i][2].percent = percent
         /\ rows[i][2].kind = "decimal" => rows[i][2].places = places

\* the header name after renaming by the entries of a column mapping
RECURSIVE Renamed(_, _)
Renamed(name, entries) ==
  IF entries = <<>> THEN name
  ELSE IF Head(entries)[1] = name THEN Head(entries)[2]
  ELSE Renamed(name, Tail(entries))

\* the caller's configuration without its column mapping
Unmapped == [k \in DOMAIN rep.config \ {"columnMapping"} |-> rep.config[k]]

\* C14 as stated: with a columnMapping the header row shows the new header
\* names in place of the mapped originals, while the number of columns, the
\* field order and every field value of every data row stay the same as
\* without the mapping.
C14_Original ==
  (Generated /\ Len(rep.data.items) > 0 /\ Len(Effective.columnMapping) > 0) =>
    LET plain == generate(rep.data, Unmapped).value
    IN /\ DataRows(Effective, Content) = DataRows(Effective, plain)
       /\ Effective.includeHeaders =>
            Content.lines[1] =
              [c \in 1..3 |-> Text(Renamed(Effective.headers[c], Effective.columnMapping))]

(***************************************************************************)
(* Claims about the orchestrator, checked on SpecOrchestrator.             *)
(***************************************************************************)
\* the run has started
Started == orc.pc # "idle"

\* the names of the calls the run has made
Made == {orc.log[i].name : i \in 1..Len(orc.log)}

\* C15: the phases of a run occur in the order validate config, authenticate,
\* fetch projects, filter, classify, generate CSV, optional persist, done;
\* a phase starts only after the one before it completed without a throw;
\* after the first failing phase no call on a collaborator or on the progress
\* callback of a later phase, onComplete included, is made, and the run ends
\* in failure.
C15_PhaseOrder ==
  /\ \A i, j \in 1..Len(orc.log) :
       i < j => Rank(orc.log[i].phase) <= Rank(orc.log[j].phase)
  /\ \A i \in 1..Len(orc.log) : \A k \in 1..(Rank(orc.log[i].phase) - 1) :
       Phases[k] \in Range(orc.completed)
  /\ \A k \in 1..Len(orc.completed) : orc.completed[k] = Phases[k]
  /\ orc.failed # "" =>
       /\ orc.pc = "rejected"
       /\ orc.outcome.state = "rejected"
       /\ orc.failed \notin Range(orc.completed)
       /\ \A i \in 1..Len(orc.log) : Rank(orc.log[i].phase) <= Rank(orc.failed)
       /\ "onComplete" \notin Made
  /\ orc.outcome.state = "resolved" => Len(orc.completed) = Len(Phases)

\* a run failed in its classify phase, after the filter phase reported to the
\* progress callback, and made no call of a later phase
C15_Witness ==
  /\ orc.failed = "classify"
  /\ orc.progress
  /\ "onFiltering" \in Made
  /\ "onGeneratingCsv" \notin Made
  /\ orc.outcome.state = "rejected"

\* the phase name an error of a phase is to carry
PhaseName(phase) ==
  CASE phase = "authenticate" -> "fetch"
    [] phase = "persist" -> "generate"
    [] OTHER -> phase

\* the parts of one message occur, in order and together, in another
Contains(message, part) ==
  \E k \in 0..(Len(message) - Len(part)) :
    \A i \in 1..Len(part) : message[k + i] = part[i]

\* the error a failing phase threw, before any wrapping
Cause == IF orc.original.name = "ReportError" THEN orc.original.cause[1] ELSE orc.original

\* C16 as stated: whenever a phase p of generateReport fails, the error
\* raised to the caller carries phase = p, the original error as its cause,
\* and a message containing the original error's message; a configuration
\* failure reaches the caller tagged config with the validation message.
C16_Original ==
  orc.failed # "" =>
    /\ orc.outcome.error.phase = PhaseName(orc.failed)
    /\ orc.outcome.error.cause = <<Cause>>
    /\ Contains(orc.outcome.error.message, Cause.message)

\* the configuration is one generateReport is to reject
Rejectable(config) ==
  \/ ~UrlParses(Get(config.sonarqube, "baseUrl"))
  \/ Get(config.sonarqube, "token") \in {Undefined, Str("")}
  \/ /\ Get(config.classification, "threshold") # Undefined
     /\ ~InRange(Get(config.classification, "threshold"))

\* the calls on the client, the reporter and the file system
CollaboratorCalls ==
  {"client.authenticate", "client.fetchProjects", "reporter.generate", "reporter.writeToFile"}

\* C17 as stated: generateReport rejects the configuration when the base URL
\* is missing or no valid URL, when the token is missing, or when a
\* threshold is provided outside [0,100], and then makes no call on the
\* client, the reporter or the file system.
C17_Original ==
  (Started /\ Rejectable(orc.config)) =>
    /\ orc.outcome.state = "rejected"
    /\ Made \cap CollaboratorCalls = {}

\* the CSV text the caller of generateReport received
Received ==
  CASE orc.outcome.state = "resolved" -> {orc.outcome.value.csvContent}
    [] orc.outcome.state = "rejected" /\ "csvContent" \in DOMAIN orc.outcome.error ->
         {orc.outcome.error.csvContent}
    [] OTHER -> {}

\* C18 as stated: when an output path is configured and writing the file
\* fails, the failure is surfaced to the caller without retry and the caller
\* still receives the generated CSV content of the run.
C18_Original ==
  orc.failed = "persist" =>
    /\ orc.outcome.state = "rejected"
    /\ Len(orc.writes) = 1
    /\ Received = {orc.csvContent}

\* the strings in what the run handed to its caller and to the progress
\* callback: in the configuration inside the result's metadata, and in the
\* message of the raised error and of its cause
Surfaced ==
  CASE orc.outcome.state = "resolved" ->
         {orc.outcome.value.metadata.config.sonarqube.token.s}
    [] orc.outcome.state = "rejected" ->
         Range(orc.outcome.error.message)
           \cup (IF orc.outcome.error.cause = <<>> THEN {}
                 ELSE Range(orc.outcome.error.cause[1].message))
    [] OTHER -> {}

\* C19 as stated: the access token value never appears in anything
\* generateReport hands back to its caller or to progress callbacks: not in
\* the ReportResult, its metadata included, and not in any raised error's
\* message or cause.
C19_Original ==
  (Started /\ Truthy(Get(orc.config.sonarqube, "token"))) =>
    orc.config.sonarqube.token.s \notin Surfaced

\* an output path is set: a non-empty string
IsSet(path) == path.t = "str" /\ path.s # ""

\* C20: reporter.writeToFile is called during generateReport exactly when
\* config.outputPath is set (a non-empty string), at most once, only after
\* the CSV generation succeeded, and with exactly the generated CSV content;
\* a run without outputPath succeeds without any write.
C20_WriteOnce ==
  /\ Len(orc.writes) <= 1
  /\ \A i \in 1..Len(orc.writes) :
       /\ "generate" \in Range(orc.completed)
       /\ IsSet(orc.config.outputPath)
       /\ orc.writes[i] = [csv |-> orc.csvContent, path |-> orc.config.outputPath]
  /\ Len(orc.writes) = Cardinality({i \in 1..Len(orc.log) :
                                      orc.log[i].name = "reporter.writeToFile"})
  /\ (orc.pc = "done" \/ orc.failed = "persist") =>
       (Len(orc.writes) = 1 <=> IsSet(orc.config.outputPath))
  /\ (orc.pc = "persist" /\ ~IsSet(orc.config.outputPath)) =>
       ENABLED (WriteToFile /\ orc'.pc = "done" /\ orc'.writes = <<>>)

\* a run with an output path ended after writing the generated text, header
\* and one row, once
C20_Witness ==
  /\ orc.outcome.state = "resolved"
  /\ IsSet(orc.config.outputPath)
  /\ Len(orc.writes) = 1
  /\ orc.writes[1].csv = orc.outcome.value.csvContent
  /\ Len(orc.writes[1].csv.lines) = 2

\* the sum of the values of a function with a finite domain
RECURSIVE SumOver(_, _)
SumOver(f, keys) ==
  IF keys = {} THEN 0
  ELSE LET k == CHOOSE x \in keys : TRUE
       IN f[k] + SumOver(f, keys \ {k})

\* the calls of a name the run has made, in order
CallsOf(name) == SelectSeq(orc.log, LAMBDA ev : ev.name = name)

\* C21: in every successful result categoryCounts has a key only for
\* categories assigned to at least one surviving project, each count is the
\* number of categorized records of that category, the counts sum to
\* projectCount, and projectCount is the after-filter count reported through
\* onFiltering, which never exceeds the before-filter count.
C21_Counts ==
  orc.outcome.state = "resolved" =>
    LET result == orc.outcome.value
        records == orc.categorizedProjects
    IN /\ \A c \in DOMAIN result.categoryCounts :
            /\ result.categoryCounts[c] >= 1
            /\ result.categoryCounts[c] =
                 Cardinality({i \in 1..Len(records) : records[i].category.s = c})
       /\ \A i \in 1..Len(records) : records[i].category.s \in DOMAIN result.categoryCounts
       /\ SumOver(result.categoryCounts, DOMAIN result.categoryCounts) = result.projectCount
       /\ result.projectCount = Len(orc.filteredProjects)
       /\ \A i \in 1..Len(CallsOf("onFiltering")) :
            /\ CallsOf("onFiltering")[i].args[2] = result.projectCount
            /\ CallsOf("onFiltering")[i].args[2] <= CallsOf("onFiltering")[i].args[1]
            /\ CallsOf("onFiltering")[i].args[1] = Len(orc.projects)

\* a successful run whose filters dropped a project and whose projects are of
\* two categories, reported through onFiltering
C21_Witness ==
  /\ orc.outcome.state = "resolved"
  /\ Len(CallsOf("onFiltering")) = 1
  /\ CallsOf("onFiltering")[1].args = <<3, 2>>
  /\ Cardinality(DOMAIN orc.outcome.value.categoryCounts) = 2
  /\ orc.outcome.value.projectCount = 2

\* the calls of the classify phase
ClassifyLog == SelectSeq(orc.log, LAMBDA ev : ev.phase = "classify")

\* the callbacks of the run
Callbacks ==
  SelectSeq(orc.log, LAMBDA ev : ev.name \in {"onFetchingProjects", "onFiltering",
                                              "onProjectProcessed", "onGeneratingCsv",
                                              "onComplete"})

\* C22: during the classify phase onProjectProcessed is invoked exactly once
\* per surviving project, immediately after that project is classified and
\* before the next one is, with index 1, 2, ..., n in collection order and
\* total = n; all these calls come after onFiltering and before
\* onGeneratingCsv, and onComplete is the last callback of a successful run.
C22_Progress ==
  (orc.progress /\ "classify" \in Range(orc.completed)) =>
    LET n == Len(orc.filteredProjects)
        processed == CallsOf("onProjectProcessed")
    IN /\ Len(processed) = n
       /\ Len(ClassifyLog) = 2 * n
       /\ \A i \in 1..n :
            /\ ClassifyLog[2 * i - 1] =
                 EventWith("classify", "classifier.classify", <<orc.filteredProjects[i]>>)
            /\ ClassifyLog[2 * i] =
                 EventWith("classify", "onProjectProcessed", <<orc.filteredProjects[i], i, n>>)
       /\ \A i, j \in 1..Len(orc.log) :
            /\ (orc.log[i].name = "onFiltering" /\ orc.log[j].name = "onProjectProcessed")
                 => i < j
            /\ (orc.log[i].name = "onProjectProcessed" /\ orc.log[j].name = "onGeneratingCsv")
                 => i < j
       /\ orc.outcome.state = "resolved" =>
            Callbacks[Len(Callbacks)].name = "onComplete"

\* a successful run with a progress callback that classified two projects
C22_Witness ==
  /\ orc.progress
  /\ orc.outcome.state = "resolved"
  /\ Len(CallsOf("onProjectProcessed")) = 2
  /\ CallsOf("onProjectProcessed")[2].args[2] = 2
  /\ "onGeneratingCsv" \in Made

\* the project passes a filter strategy
Passes(strategy, ref) == apply(strategy, <<ref>>) = <<ref>>

\* C27 as stated: every filter strategy placed in ReportConfig.filters is
\* applied to the fetched projects during the filter phase of
\* generateReport, so that a project rejected by a configured filter never
\* appears in the CSV or in projectCount.
C27_Original ==
  (orc.outcome.state = "resolved" /\ "filters" \in DOMAIN orc.config) =>
    /\ orc.outcome.value.projectCount = Len(orc.filteredProjects)
    /\ \A i \in 1..Len(orc.filteredProjects) : \A k \in 1..Len(orc.config.filters) :
         Passes(orc.config.filters[k], orc.filteredProjects[i])

\* the repository names of the model in ascending order
NameOrder == <<"fe-app", "fe-core", "fe-lib", "fe-nan">>

\* the position of a repository name in the ascending order
NameRank(name) == CHOOSE i \in 1..Len(NameOrder) : NameOrder[i] = name

\* C28 as stated: the CSV produced by generateReport has one data row per
\* surviving project and its rows are in ascending order of repository name,
\* whatever order the client returned the projects in.
C28_Original ==
  orc.outcome.state = "resolved" =>
    LET content == orc.outcome.value.csvContent
        rows == DataRows(Merge(DEFAULT_CSV_CONFIG, orc.config.csv), content)
    IN /\ Len(rows) = Len(orc.filteredProjects)
       /\ \A i, j \in 1..Len(rows) :
            i < j => NameRank(rows[i][1].s) <= NameRank(rows[j][1].s)

Settled(i) ==
  \/ sq.projects[i] = Degraded(sq.components[i])
  \/ /\ sq.projects[i] = Fetched(sq.components[i], sq.projects[i].coveragePercent)
     /\ sq.projects[i].coveragePercent # Undefined
     /\ \A r \in SubRequests : <<i, r>> \notin sq.inflight

\* C23: fetchProjects makes one record per component of the search response,
\* in the order of the response, whichever sub-requests fail and in whichever
\* order they complete: the records made so far are those of the first
\* components, each settled, a component with a failed sub-request has the
\* degraded record of coverage 0, the call returns the records of all the
\* components, and it throws only when the search request itself failed.
C23_OnePerComponent ==
  /\ Len(sq.projects) <= Len(sq.components)
  /\ \A i \in 1..Len(sq.projects) :
       /\ sq.projects[i].key = sq.components[i]
       /\ Settled(i)
       /\ i \in sq.failures => sq.projects[i] = Degraded(sq.components[i])
  /\ \A i \in sq.failures : sq.pc = "loop" => i <= sq.index
  /\ sq.pc = "returned" =>
       /\ sq.result = sq.projects
       /\ sq.hasComponents => Len(sq.result) = Len(sq.components)
  /\ sq.pc = "threw" => sq.failures = {} /\ sq.projects = <<>>

\* fetchProjects returned two records, the first degraded after a failure and
\* the second fetched, while a sub-request of the first was still in flight
C23_Witness ==
  /\ sq.pc = "returned"
  /\ Len(sq.result) = 2
  /\ 1 \in sq.failures
  /\ sq.result[1] = Degraded(sq.components[1])
  /\ sq.result[2].metadata = "fetched"
  /\ \E r \in SubRequests : <<1, r>> \in sq.inflight

\* C24: every project fetchProjects returns has a finite coveragePercent that
\* is not negative, which the validation of the classifier accepts.
C24_Original ==
  sq.pc = "returned" =>
    \A i \in 1..Len(sq.result) :
      /\ NumberIsFinite(sq.result[i].coveragePercent)
      /\ ~JsLt(sq.result[i].coveragePercent, Pct(0))
      /\ validateCoverage(sq.result[i].coveragePercent)

(***************************************************************************)
(* The command line                                                        *)
(***************************************************************************)
\* the run was given a server URL that parses and a token, by option or by
\* the environment, and asked for no help
ValidRun ==
  /\ cli.pc = "exited"
  /\ ~parseArgs(cli.argv).threw
  /\ ~Truthy(cli.exit.args.help)
  /\ UrlParses(Or(cli.exit.args.sonarUrl, cli.env.SONAR_URL))
  /\ Truthy(Or(cli.exit.args.sonarToken, cli.env.SONAR_TOKEN))

\* C25: a run with a valid server URL and a token ends with exit code 0 and
\* has emitted the CSV; a run whose arguments or configuration are in error
\* ends with another exit code.
C25_Original ==
  /\ ValidRun => cli.exit.exitCode = 0 /\ cli.exit.config # NoConfig
  /\ ValidRun /\ ~Truthy(cli.exit.args.output) => cli.exit.stdout = "csv"
  /\ cli.pc = "exited" /\ ~ValidRun /\ ~Truthy(cli.exit.args.help) => cli.exit.exitCode # 0

\* the threshold options of the arguments, as the numbers they spell
SuppliedThresholds ==
  { ParseFloat(cli.argv[i + 1]) :
      i \in { j \in 1..(Len(cli.argv) - 1) : cli.argv[j] \in {"-T", "--threshold"} } }

\* C26: the threshold of a run whose arguments parse is the one supplied, for
\* every supplied value from 0 to 100, and 50 when none was supplied.
C26_Original ==
  cli.pc = "exited" /\ ~parseArgs(cli.argv).threw =>
    /\ \A threshold \in SuppliedThresholds : cli.exit.args.threshold = threshold
    /\ SuppliedThresholds = {} => cli.exit.args.threshold = Pct(50)
    /\ cli.exit.config # NoConfig =>
         cli.exit.config.classification.threshold = cli.exit.args.threshold

(***************************************************************************)
(* LanguageFilterStrategy                                                  *)
(***************************************************************************)
\* the language list of a project as the claim words it: metadata.languages
\* when it is an array, otherwise the metadata.language string (a string that
\* is not empty), otherwise the languages field of the quality gate, a list
\* or a single value, otherwise nothing
LanguageList(project) ==
  LET m == project.metadata
  IN IF m.languages.t = "arr" THEN m.languages.e
     ELSE IF m.language.t = "str" /\ m.language.s # "" THEN <<m.language>>
     ELSE IF m.qualityGateLanguages.t = "arr" THEN m.qualityGateLanguages.e
     ELSE IF m.qualityGateLanguages.t = "str" /\ m.qualityGateLanguages.s # ""
       THEN <<m.qualityGateLanguages>>
     ELSE <<>>

Shares(project, languages) == Range(LanguageList(project)) \cap Range(languages) # {}

\* C29: LanguageFilterStrategy.apply returns, in their order, exactly the
\* projects whose language list shares an element with the configured
\* languages; a project without language information is never returned, and
\* no project is returned when no language is configured.
C29_Language ==
  lng.op = "apply" =>
    /\ lng.out = SelectSeq(lng.projects, LAMBDA project : Shares(project, lng.strategy.languages))
    /\ \A i \in 1..Len(lng.out) : LanguageList(lng.out[i]) # <<>>
    /\ lng.strategy.languages = <<>> => lng.out = <<>>

\* of two projects the filter kept the one whose languages array holds a
\* configured language and dropped the one whose language field does, because
\* its languages array comes first
C29_Witness ==
  /\ lng.op = "apply"
  /\ lng.strategy.languages = <<Str("java"), Str("js")>>
  /\ Len(lng.projects) = 2
  /\ lng.projects[1].metadata = Metadata(Arr(<<Str("ts"), Str("js")>>), Str("java"), Str("go"))
  /\ lng.projects[2].metadata = Metadata(Arr(<<>>), Str("java"), Undefined)
  /\ lng.out = <<lng.projects[1]>>

====
